---- MODULE Spec2Model ----
(***************************************************************************)
(* A model of the type-unification core of the Codon typechecker:          *)
(* ClassType::unify, FuncType::unify, the speculative overload probe       *)
(* TypecheckVisitor::canCall with wrapExpr, and method selection           *)
(* (findMatchingMethods / findBestMethod).                                 *)
(*                                                                         *)
(* The type graph is an arena: a type term is a record, a LinkType node is *)
(* [k |-> "link", id |-> i] and its binding lives in tv[i]; a UnionType is *)
(* [k |-> "union", uid |-> u] and its members live in unions[u].           *)
(***************************************************************************)
EXTENDS Integers, Sequences, FiniteSets, TLC

VARIABLES
  tv,      \* tv[i]: the binding of LinkType node i (Unbound, or the linked type)
  unions,  \* unions[u]: [pending |-> members in insertion order, sealed |-> BOOLEAN]
  op,      \* the operation that ran last
  res,     \* what it was called with and what it returned
  pre,     \* the type graph [tv, unions] as it was when that operation started
  cache    \* ctx->cache: the partials table and the generated classes

vars == <<tv, unions, op, res, pre, cache>>

\* The cache before anything was generated; made counts the type objects
\* that were allocated for it.
NoCache == [partials |-> {}, classes |-> {}, made |-> 0]

-----------------------------------------------------------------------------
(* Type terms *)

None == [k |-> "none"]
Unbound == [k |-> "unbound"]

Var(i) == [k |-> "link", id |-> i]
Cls(n, g) == [k |-> "class", name |-> n, generics |-> g]
IntStatic(v) == [k |-> "static", value |-> v]
Union(u) == [k |-> "union", uid |-> u]
\* A FuncType: the ClassType part is name/generics, where generics[1] is the
\* tuple of the parameter types and generics[2] is the return type.
\* obj is the identity of the object (its address).
Func(o, a, ix, fg, p, args, ret) ==
  [k |-> "func", obj |-> o, ast |-> a, index |-> ix, funcGenerics |-> fg,
   funcParent |-> p, name |-> "Function",
   generics |-> <<Cls("Tuple", args), ret>>]

\* The ids of the LinkType nodes. Nodes 0 and 4 are static (value-level)
\* variables. Nodes 3 and 4 are the fresh nodes that instantiating a candidate
\* method makes for its generics; nodes 0..2 belong to the caller.
TypeVarIds == {1, 2, 3}
StaticVarIds == {0, 4}
FreshVarIds == {3, 4}
VarIds == TypeVarIds \cup StaticVarIds
CallerVarIds == VarIds \ FreshVarIds
UnionIds == {1, 2}

IsStaticVar(i) == i \in StaticVarIds

IsBound(i, g) == g[i] # Unbound

\* Dereference a chain of links; stops at an unbound node or a non-link type.
RECURSIVE Follow(_, _)
Follow(t, g) ==
  IF t.k = "link" /\ IsBound(t.id, g) THEN Follow(g[t.id], g) ELSE t

\* getClass(): the ClassType a type is (through bound links), or None.
GetClass(t, g) ==
  LET f == Follow(t, g) IN IF f.k \in {"class", "static", "func", "union"} THEN f ELSE None

\* getFunc(): the FuncType a type is (through bound links), or None.
GetFunc(t, g) ==
  LET f == Follow(t, g) IN IF f.k = "func" THEN f ELSE None

\* getLink(): non-null only for a LinkType node that getClass() did not resolve.
GetLink(t, g) ==
  LET f == Follow(t, g) IN IF f.k = "link" THEN f ELSE None

\* The ClassType fields of a class-like term.
ClassName(c) ==
  CASE c.k = "class" -> c.name
    [] c.k = "func" -> c.name
    [] c.k = "static" -> "int"
    [] c.k = "union" -> "Union"

ClassGenerics(c) ==
  IF c.k \in {"class", "func"} THEN c.generics ELSE <<>>

IsStaticType(t, g) ==
  LET f == Follow(t, g) IN
  \/ f.k = "static"
  \/ f.k = "link" /\ IsStaticVar(f.id)

\* Does unbound node i occur in type t (through bound links)?
RECURSIVE Occurs(_, _, _)
Occurs(i, t, g) ==
  LET f == Follow(t, g) IN
  CASE f.k = "link" -> f.id = i
    [] f.k = "class" -> \E j \in 1..Len(f.generics) : Occurs(i, f.generics[j], g)
    [] f.k = "func" ->
         \/ \E j \in 1..Len(f.generics) : Occurs(i, f.generics[j], g)
         \/ \E j \in 1..Len(f.funcGenerics) : Occurs(i, f.funcGenerics[j], g)
         \/ f.funcParent # None /\ Occurs(i, f.funcParent, g)
    [] OTHER -> FALSE

-----------------------------------------------------------------------------
(* Unification.  A unification state is [tv, unions, log]; log is the      *)
(* Unification object: the stack of <<node, previous binding>> pairs.      *)
(* Every unify operator returns [s |-> score, st |-> state after].         *)

UState(g, u, l) == [tv |-> g, unions |-> u, log |-> l]
URes(s, st) == [s |-> s, st |-> st]

\* Unification::undo(): unwind the log in reverse order.
RECURSIVE UndoFrom(_, _, _)
UndoFrom(g, l, n) ==
  IF n = 0 THEN g
  ELSE UndoFrom([g EXCEPT ![l[n][1]] = l[n][2]], l, n - 1)

Undo(st) == UState(UndoFrom(st.tv, st.log, Len(st.log)), st.unions, <<>>)

RECURSIVE Unify(_, _, _)
RECURSIVE UnifyList(_, _, _, _, _)

\* for (i...) { if ((s = a[i]->unify(b[i], us)) == -1) return -1; s1 += s; }
\* Returns the accumulated score s1, or -1; the state keeps whatever was bound.
UnifyList(as, bs, i, s1, st) ==
  IF i > Len(as) THEN URes(s1, st)
  ELSE LET r == Unify(as[i], bs[i], st) IN
       IF r.s = -1 THEN URes(-1, r.st)
       ELSE UnifyList(as, bs, i + 1, s1 + r.s, r.st)

\* LinkType::unify for node a.
LinkUnify(a, typ, st) ==
  IF IsBound(a.id, st.tv) THEN Unify(st.tv[a.id], typ, st)
  ELSE LET t == Follow(typ, st.tv) IN
       IF t.k = "link" /\ t.id = a.id THEN URes(0, st)
       ELSE IF IsStaticVar(a.id) # IsStaticType(t, st.tv) THEN URes(-1, st)
       ELSE IF Occurs(a.id, t, st.tv) THEN URes(-1, st)
       ELSE URes(0, UState([st.tv EXCEPT ![a.id] = t], st.unions,
                           Append(st.log, <<a.id, Unbound>>)))

\* IntStaticType::unify.
IntStaticUnify(a, typ, st) ==
  LET t == Follow(typ, st.tv) IN
  IF t.k = "static" THEN URes(IF t.value = a.value THEN 0 ELSE -1, st)
  ELSE IF t.k = "link" THEN LinkUnify(t, a, st)
  ELSE URes(-1, st)

\* UnionType::addType that adds to a sealed union as well.
AddType_IgnoreSeal(u, c, un) ==
  IF \E j \in 1..Len(un[u].pending) : un[u].pending[j] = c
  THEN un
  ELSE [un EXCEPT ![u].pending = Append(@, c)]

\* UnionType::seal.
Seal(u, un) == [un EXCEPT ![u].sealed = TRUE]

\* UnionType::addType.
AddType(u, c, un) ==
  IF un[u].sealed \/ \E j \in 1..Len(un[u].pending) : un[u].pending[j] = c
  THEN un
  ELSE [un EXCEPT ![u].pending = Append(@, c)]

\* UnionType::unify.
UnionUnify(a, typ, st) ==
  LET t == Follow(typ, st.tv) IN
  IF t.k = "union" THEN
    URes(IF \A j \in 1..Len(st.unions[t.uid].pending) :
              \E i \in 1..Len(st.unions[a.uid].pending) :
                 st.unions[a.uid].pending[i] = st.unions[t.uid].pending[j]
         THEN 0 ELSE -1, st)
  ELSE IF t.k = "link" THEN LinkUnify(t, a, st)
  ELSE IF t.k \in {"class", "static"} THEN
    IF \E i \in 1..Len(st.unions[a.uid].pending) : st.unions[a.uid].pending[i] = t
    THEN URes(0, st)
    ELSE IF ~st.unions[a.uid].sealed
    THEN URes(0, UState(st.tv, AddType(a.uid, t, st.unions), st.log))
    ELSE URes(-1, st)
  ELSE URes(-1, st)

\* ClassType::unify with a class weight of 2 instead of 3.
ClassUnify_Weight2(this, typ, st) ==
  LET tc == GetClass(typ, st.tv) IN
  IF tc # None THEN
    IF ClassName(this) = "int" /\ ClassName(tc) = "Int"
    THEN Unify(tc, this, st)
    ELSE IF ClassName(tc) = "int" /\ ClassName(this) = "Int"
    THEN Unify(ClassGenerics(this)[1], IntStatic(64), st)
    ELSE IF ClassName(this) # ClassName(tc) THEN URes(-1, st)
    ELSE IF Len(ClassGenerics(this)) # Len(ClassGenerics(tc)) THEN URes(-1, st)
    ELSE UnifyList(ClassGenerics(this), ClassGenerics(tc), 1, 2, st)
  ELSE IF GetLink(typ, st.tv) # None
  THEN LinkUnify(GetLink(typ, st.tv), this, st)
  ELSE URes(-1, st)

\* ClassType::unify that handles Int[N] against int but not int against Int[N].
ClassUnify_OneWay(this, typ, st) ==
  LET tc == GetClass(typ, st.tv) IN
  IF tc # None THEN
    IF ClassName(tc) = "int" /\ ClassName(this) = "Int"
    THEN Unify(ClassGenerics(this)[1], IntStatic(64), st)
    ELSE IF ClassName(this) # ClassName(tc) THEN URes(-1, st)
    ELSE IF Len(ClassGenerics(this)) # Len(ClassGenerics(tc)) THEN URes(-1, st)
    ELSE UnifyList(ClassGenerics(this), ClassGenerics(tc), 1, 3, st)
  ELSE IF GetLink(typ, st.tv) # None
  THEN LinkUnify(GetLink(typ, st.tv), this, st)
  ELSE URes(-1, st)

\* ClassType::unify.
ClassUnify(this, typ, st) ==
  LET tc == GetClass(typ, st.tv) IN
  IF tc # None THEN
    IF ClassName(this) = "int" /\ ClassName(tc) = "Int"
    THEN Unify(tc, this, st)
    ELSE IF ClassName(tc) = "int" /\ ClassName(this) = "Int"
    THEN Unify(ClassGenerics(this)[1], IntStatic(64), st)
    ELSE IF ClassName(this) # ClassName(tc) THEN URes(-1, st)
    ELSE IF Len(ClassGenerics(this)) # Len(ClassGenerics(tc)) THEN URes(-1, st)
    ELSE UnifyList(ClassGenerics(this), ClassGenerics(tc), 1, 3, st)
  ELSE IF GetLink(typ, st.tv) # None
  THEN LinkUnify(GetLink(typ, st.tv), this, st)
  ELSE URes(-1, st)

\* FuncType::unify without the `this == typ` shortcut.
FuncUnify_NoIdentity(this, typ, st) ==
  LET t == GetFunc(typ, st.tv)
      r1 == IF t = None THEN URes(2, st)
            ELSE IF \/ this.ast # t.ast
                    \/ this.index # t.index
                    \/ (this.funcParent # None) # (t.funcParent # None)
            THEN URes(-1, st)
            ELSE LET rp == IF this.funcParent # None
                           THEN Unify(this.funcParent, t.funcParent, st)
                           ELSE URes(0, st) IN
                 IF rp.s = -1 THEN URes(-1, rp.st)
                 ELSE UnifyList(this.funcGenerics, t.funcGenerics, 1,
                                2 + rp.s, rp.st)
  IN
  IF r1.s = -1 THEN r1
  ELSE LET rc == ClassUnify(this, typ, r1.st) IN
       IF rc.s = -1 THEN rc ELSE URes(r1.s + rc.s, rc.st)

\* FuncType::unify that does not compare the indices.
FuncUnify_NoIndex(this, typ, st) ==
  IF this = typ THEN URes(0, st)
  ELSE
    LET t == GetFunc(typ, st.tv)
        r1 == IF t = None THEN URes(2, st)
              ELSE IF \/ this.ast # t.ast
                      \/ (this.funcParent # None) # (t.funcParent # None)
              THEN URes(-1, st)
              ELSE LET rp == IF this.funcParent # None
                             THEN Unify(this.funcParent, t.funcParent, st)
                             ELSE URes(0, st) IN
                   IF rp.s = -1 THEN URes(-1, rp.st)
                   ELSE UnifyList(this.funcGenerics, t.funcGenerics, 1,
                                  2 + rp.s, rp.st)
    IN
    IF r1.s = -1 THEN r1
    ELSE LET rc == ClassUnify(this, typ, r1.st) IN
         IF rc.s = -1 THEN rc ELSE URes(r1.s + rc.s, rc.st)

\* FuncType::unify.
FuncUnify(this, typ, st) ==
  IF this = typ THEN URes(0, st)
  ELSE
    LET t == GetFunc(typ, st.tv)
        \* the block under `if (auto t = typ->getFunc())`: s1, or -1 on return -1
        r1 == IF t = None THEN URes(2, st)
              ELSE IF \/ this.ast # t.ast
                      \/ this.index # t.index
                      \/ (this.funcParent # None) # (t.funcParent # None)
              THEN URes(-1, st)
              ELSE LET rp == IF this.funcParent # None
                             THEN Unify(this.funcParent, t.funcParent, st)
                             ELSE URes(0, st) IN
                   IF rp.s = -1 THEN URes(-1, rp.st)
                   ELSE UnifyList(this.funcGenerics, t.funcGenerics, 1,
                                  2 + rp.s, rp.st)
    IN
    IF r1.s = -1 THEN r1
    ELSE LET rc == ClassUnify(this, typ, r1.st) IN
         IF rc.s = -1 THEN rc ELSE URes(r1.s + rc.s, rc.st)

\* Type::unify: virtual dispatch on the dynamic kind of a.
Unify(a, typ, st) ==
  CASE a.k = "link" -> LinkUnify(a, typ, st)
    [] a.k = "class" -> ClassUnify(a, typ, st)
    [] a.k = "static" -> IntStaticUnify(a, typ, st)
    [] a.k = "union" -> UnionUnify(a, typ, st)
    [] a.k = "func" -> FuncUnify(a, typ, st)

-----------------------------------------------------------------------------
(* The types the operations are applied to *)

TInt == Cls("int", <<>>)
TStr == Cls("str", <<>>)
TFloat == Cls("float", <<>>)
List(a) == Cls("List", <<a>>)
Tuple1(a) == Cls("Tuple", <<a>>)
Tuple2(a, b) == Cls("Tuple", <<a, b>>)
IntN(n) == Cls("Int", <<n>>)

Statics == {IntStatic(64), IntStatic(32), Var(0)}

ClassTypes ==
  {TInt, TStr}
  \cup {List(a) : a \in {TInt, TStr, Var(1)}}
  \cup {Tuple1(TInt)}
  \cup {Tuple2(a, b) : a \in {TInt, Var(1), Var(2)}, b \in {TInt, TStr}}
  \cup {IntN(n) : n \in Statics}

\* Declarations: f has one function generic, g has none.
FuncAsts == {"f", "g"}
FuncGenericsOf(a) ==
  IF a = "f" THEN {<<TInt>>, <<TStr>>, <<Var(2)>>} ELSE {<<>>}

FuncTypes ==
  {Func(1, "f", ix, fg, p, <<a>>, TInt) :
     ix \in {0, 1}, fg \in FuncGenericsOf("f"),
     p \in {None, TInt, List(Var(1))}, a \in {TInt, TStr}}
  \cup {Func(1, "g", 0, <<>>, None, <<TInt>>, TInt)}

\* A second object with the same content as f.
Copy(f) == [f EXCEPT !.obj = 2]

InitUnions ==
  [u \in UnionIds |->
     IF u = 1 THEN [pending |-> <<TInt>>, sealed |-> FALSE]
     ELSE [pending |-> <<TInt, TStr>>, sealed |-> TRUE]]

Graph == [tv |-> tv, unions |-> unions]

\* The graphs an operation may find: every node unbound or already linked.
InitBindings ==
  {g \in [VarIds -> {Unbound, TInt, TStr, Var(1), IntStatic(64), IntStatic(32)}] :
     /\ g[0] \in {Unbound, IntStatic(64), IntStatic(32)}
     /\ g[1] \in {Unbound, TInt, TStr}
     /\ g[2] \in {Unbound, TInt, Var(1)}
     /\ \A i \in FreshVarIds : g[i] = Unbound}

Init ==
  /\ tv \in InitBindings
  /\ unions = InitUnions
  /\ cache = NoCache
  /\ op = "init"
  /\ res = [a |-> None, b |-> None, score |-> 0, log |-> <<>>]
  /\ pre = Graph

-----------------------------------------------------------------------------
(* Operations on types *)

\* Type::Unification undo; a->unify(b, &undo);
DoUnify(a, b, name) ==
  LET r == Unify(a, b, UState(tv, unions, <<>>)) IN
  /\ pre' = Graph
  /\ tv' = r.st.tv
  /\ unions' = r.st.unions
  /\ cache' = cache
  /\ op' = name
  /\ res' = [a |-> a, b |-> b, score |-> r.s, log |-> r.st.log]

\* ClassType::unify called on a class type, against a class type or a link.
UnifyClass ==
  /\ op = "init"
  /\ \E a \in ClassTypes, b \in ClassTypes \cup {Var(1)} :
    DoUnify(a, b, "unifyClass")

\* FuncType::unify called on a function type, against the same object, another
\* function type object, or a link.
UnifyFunc ==
  /\ op = "init"
  /\ \E a \in FuncTypes :
       \E b \in FuncTypes \cup {Copy(a), Var(2)} :
         DoUnify(a, b, "unifyFunc")

\* undo.undo() on the Unification object of the unify call that just returned.
UndoUnify ==
  /\ op \in {"unifyClass", "unifyFunc"}
  /\ res.log # <<>>
  /\ pre' = Graph
  /\ tv' = Undo(UState(tv, unions, res.log)).tv
  /\ UNCHANGED <<unions, cache>>
  /\ op' = "undo"
  /\ res' = [res EXCEPT !.log = <<>>]

NextUnify == UnifyClass \/ UnifyFunc \/ UndoUnify

SpecUnify == Init /\ [][NextUnify]_vars

-----------------------------------------------------------------------------
(* Overload resolution: declarations, call arguments, argument binding *)

\* A declared parameter: value is isValue(), otherwise it is a generic;
\* ni says the generic is in getNonInferrableGenerics().
Param(n, v, d, ni) == [name |-> n, value |-> v, default |-> d, ni |-> ni]
ValueParam(n, d) == Param(n, TRUE, d, FALSE)
GenericParam(n, d, ni) == Param(n, FALSE, d, ni)

\* A candidate: the FunctionStmt (name, parameters, attribute) and the FuncType
\* that ctx->instantiate made for it; its generics are the fresh nodes 3 and 4.
Candidate(a, ps, fg, args, naw) ==
  [ast |-> a, params |-> ps, noArgWrap |-> naw,
   type |-> Func(1, a, 0, fg, None, args, TInt)]

\* def m(x: int)   (declared twice: m.0 and m.1)
CandInt(a) == Candidate(a, <<ValueParam("x", FALSE)>>, <<>>, <<TInt>>, FALSE)
\* def m(x: float)
CandFloat == Candidate("m.2", <<ValueParam("x", FALSE)>>, <<>>, <<TFloat>>, FALSE)
\* @no_argument_wrap def m(x: float)
CandNoWrap == Candidate("m.3", <<ValueParam("x", FALSE)>>, <<>>, <<TFloat>>, TRUE)
\* def m[T](x: Tuple[T, int])
CandGeneric ==
  Candidate("m.4", <<ValueParam("x", FALSE), GenericParam("T", FALSE, FALSE)>>,
            <<Var(3)>>, <<Tuple2(Var(3), TInt)>>, FALSE)
\* def m(x: int, b: int = 5)
CandDefault ==
  Candidate("m.5", <<ValueParam("x", FALSE), ValueParam("b", TRUE)>>,
            <<>>, <<TInt, TInt>>, FALSE)
\* def m[N: Static[int]](N, x: Int[N]); N cannot be inferred when x is missing
CandStatic ==
  Candidate("m.6", <<GenericParam("N", FALSE, TRUE), ValueParam("x", TRUE)>>,
            <<Var(4)>>, <<IntN(Var(4))>>, FALSE)
\* def m(x: Tuple[int, int])
CandPair ==
  Candidate("m.8", <<ValueParam("x", FALSE)>>, <<>>, <<Tuple2(TInt, TInt)>>, FALSE)
\* def m(x: Union[...]) for each union
CandUnion(u) ==
  Candidate("m.7", <<ValueParam("x", FALSE)>>, <<>>, <<Union(u)>>, FALSE)

Candidates ==
  {CandInt("m.0"), CandInt("m.1"), CandFloat, CandNoWrap, CandGeneric,
   CandDefault, CandStatic, CandPair}
  \cup {CandUnion(u) : u \in UnionIds}

\* Call arguments: a name ("" when positional) and the type of the expression.
\* A type expression such as `int` has the type type[int].
TypeOf(t) == Cls("type", <<t>>)
CallArg(n, t) == [name |-> n, type |-> t]
ArgNames == {"", "b", "N", "zz"}
ArgTypes ==
  {TInt, TStr, Var(1), Tuple2(Var(1), TStr), Tuple2(TStr, TInt), IntStatic(64),
   TypeOf(TInt)}
CallArgs == {CallArg(n, t) : n \in ArgNames, t \in ArgTypes}

\* isTypeExpr
IsTypeExpr(arg, g) ==
  LET c == GetClass(arg.type, g) IN c # None /\ ClassName(c) = "type"

\* The positional arguments fill the parameters the partial has not bound yet,
\* left to right: the parameter the n-th positional argument goes to, 0 if none.
RECURSIVE NthFree(_, _, _, _)
NthFree(ps, known, n, i) ==
  IF i > Len(ps) THEN 0
  ELSE IF known # <<>> /\ known[i] = 1 THEN NthFree(ps, known, n, i + 1)
  ELSE IF n = 1 THEN i
  ELSE NthFree(ps, known, n - 1, i + 1)

ParamNamed(ps, n) ==
  IF \E i \in 1..Len(ps) : ps[i].name = n
  THEN CHOOSE i \in 1..Len(ps) : ps[i].name = n
  ELSE 0

\* The parameter each argument goes to (0: none). Positional arguments are
\* counted among the unnamed ones before them.
SlotOf(ps, args, known, j) ==
  IF args[j].name = ""
  THEN NthFree(ps, known, Cardinality({h \in 1..j : args[h].name = ""}), 1)
  ELSE ParamNamed(ps, args[j].name)

\* slots[si]: the indices of the arguments bound to parameter si, ascending.
RECURSIVE SlotArgs(_, _, _, _, _)
SlotArgs(ps, args, known, si, j) ==
  IF j > Len(args) THEN <<>>
  ELSE (IF SlotOf(ps, args, known, j) = si THEN <<j>> ELSE <<>>)
       \o SlotArgs(ps, args, known, si, j + 1)

Slots(ps, args, known) ==
  [si \in 1..Len(ps) |-> SlotArgs(ps, args, known, si, 1)]

\* reorderNamedArgs fails (calls onError) when an argument matches no
\* parameter, two arguments target one parameter, or a parameter without a
\* default (and not bound by the partial) gets no argument.
ReorderFails(ps, args, known) ==
  LET slots == Slots(ps, args, known) IN
  \/ \E j \in 1..Len(args) : SlotOf(ps, args, known, j) = 0
  \/ \E si \in 1..Len(ps) : Len(slots[si]) > 1
  \/ \E si \in 1..Len(ps) :
       /\ slots[si] = <<>>
       /\ ps[si].value
       /\ ~ps[si].default
       /\ ~(known # <<>> /\ known[si] = 1)

\* One entry of canCall's `reordered`: the argument type (None for nullptr)
\* and the index of the argument it came from.
Reordered(t, i) == [type |-> t, idx |-> i]

\* The onDone callback canCall passes to reorderNamedArgs, for parameter si:
\* the entry it appends to `reordered`, or None where it returns -1.
\* part is None or [known |-> mask, types |-> the types of the bound arguments];
\* gi and pi count the generics and the partial's arguments used before si.
\* (No candidate has a *args or **kwargs parameter: s and k are -1.)
OnDoneEntry(c, args, part, slots, si, g) ==
  LET p == c.params[si]
      gi == Cardinality({h \in 1..(si - 1) : ~c.params[h].value})
      pi == Cardinality({h \in 1..(si - 1) :
                           /\ c.params[h].value
                           /\ slots[h] = <<>>
                           /\ part # None
                           /\ part.known[h] = 1}) IN
  IF ~p.value THEN
    IF slots[si] = <<>> THEN
      IF p.ni /\ ~p.default THEN None ELSE Reordered(None, 0)
    ELSE IF ~IsStaticType(c.type.funcGenerics[gi + 1], g)
            /\ ~IsTypeExpr(args[slots[si][1]], g)
    THEN None
    ELSE Reordered(args[slots[si][1]].type, slots[si][1])
  ELSE IF Len(slots[si]) # 1 THEN
    IF slots[si] = <<>> /\ part # None /\ part.known[si] = 1
    THEN Reordered(part.types[pi + 1], 0)
    ELSE Reordered(None, 0)
  ELSE Reordered(args[slots[si][1]].type, slots[si][1])

\* The callback over all parameters: its result (0 or -1) and the list.
OnDone(c, args, part, slots, g) ==
  LET es == [si \in 1..Len(c.params) |-> OnDoneEntry(c, args, part, slots, si, g)] IN
  IF \E si \in 1..Len(c.params) : es[si] = None
  THEN [result |-> -1, reordered |-> <<>>]
  ELSE [result |-> 0, reordered |-> es]

PartialMask(part) == IF part = None THEN <<>> ELSE part.known

\* ctx->reorderNamedArgs: [score, reordered]. onError returns -1; base is the
\* score it gives a successful binding, to which onDone's result 0 is added.
ReorderNamedArgs(c, args, part, base, g) ==
  IF ReorderFails(c.params, args, PartialMask(part))
  THEN [score |-> -1, reordered |-> <<>>]
  ELSE LET r == OnDone(c, args, part, Slots(c.params, args, PartialMask(part)), g) IN
       IF r.result = -1 THEN [score |-> -1, reordered |-> <<>>]
       ELSE [score |-> base + r.result, reordered |-> r.reordered]

-----------------------------------------------------------------------------
(* wrapExpr and canCall *)

\* StaticType::getNonStaticType
NonStaticType(t) == TInt

\* wrapExpr(&dummy, expectedType, callee) as canCall uses it: the type dummy
\* has afterwards, the unions afterwards, and whether a ParserException left
\* it. raises says whether the transform() of the coercion raises.
\* Of the coercions, the ones between the classes of this model are covered:
\* type expression -> constructor partial, static -> non-static, int -> float,
\* T -> Union[...]; no class here has a base class (mro has one entry).
WrapRes(t, un, r) == [type |-> t, unions |-> un, raised |-> r]

WrapExpr(exprType, expectedType, c, raises, st) ==
  LET expectedClass == GetClass(expectedType, st.tv)
      exprClass0 == GetClass(exprType, st.tv) IN
  IF c.noArgWrap THEN WrapRes(exprType, st.unions, FALSE)
  ELSE IF IsTypeExpr([type |-> exprType], st.tv)
          /\ GetClass(ClassGenerics(exprClass0)[1], st.tv) = None
  THEN WrapRes(exprType, st.unions, FALSE)   \* extractClassType: return false
  ELSE IF IsTypeExpr([type |-> exprType], st.tv) /\ raises
  THEN WrapRes(exprType, st.unions, TRUE)
  ELSE
    LET t1 == IF IsTypeExpr([type |-> exprType], st.tv)
              THEN Cls("Partial", <<>>) ELSE exprType
        toNonStatic == Follow(t1, st.tv).k = "static"
                       /\ ~IsStaticType(expectedType, st.tv)
        t2 == IF toNonStatic THEN NonStaticType(Follow(t1, st.tv)) ELSE t1
        exprClass == IF toNonStatic THEN GetClass(t2, st.tv) ELSE exprClass0 IN
    IF exprClass = None /\ expectedClass # None
       /\ ClassName(expectedClass) \in {"Generator", "float", "Optional", "pyobj"}
    THEN WrapRes(t2, st.unions, FALSE)
    ELSE IF expectedClass # None /\ ClassName(expectedClass) = "float"
            /\ exprClass # None /\ ClassName(exprClass) = "int"
    THEN IF raises THEN WrapRes(t2, st.unions, TRUE)
         ELSE WrapRes(TFloat, st.unions, FALSE)
    ELSE IF exprClass # None /\ expectedClass # None /\ expectedClass.k = "union"
    THEN
      LET u == expectedClass.uid
          un1 == IF ~st.unions[u].sealed THEN AddType(u, exprClass, st.unions)
                 ELSE st.unions IN
      IF ~un1[u].sealed
      THEN WrapRes(t2, un1, FALSE)    \* realize() gives nothing: return false
      ELSE IF UnionUnify(expectedClass, exprClass, UState(st.tv, un1, <<>>)).s = -1
      THEN IF raises THEN WrapRes(t2, un1, TRUE)
           ELSE WrapRes(expectedClass, un1, FALSE)
      ELSE WrapRes(t2, un1, FALSE)
    ELSE WrapRes(t2, st.unions, FALSE)

\* The state of canCall's loop.
CallState(score, mai, gi, realGi, st) ==
  [score |-> score, mai |-> mai, gi |-> gi, realGi |-> realGi, st |-> st]

\* The try block's second statement, with the unification's result discarded
\* only after its score was added to the call's score.
ProbeUnified_Accumulate(cs, r) ==
  IF r.s >= 0 THEN [cs EXCEPT !.st = Undo(r.st), !.score = @ + r.s]
  ELSE [cs EXCEPT !.score = -1, !.st = r.st]

\* if (unify(...) >= 0) undo.undo(); else score = -1;
\* r is what the unification, run with the fresh Unification `undo`, returned.
ProbeUnified(cs, r) ==
  IF r.s >= 0 THEN [cs EXCEPT !.st = Undo(r.st)]
  ELSE [cs EXCEPT !.score = -1, !.st = r.st]

\* The try block without the catch clause's `score = -1`.
ProbeWrapped_IgnoreRaise(cs, w, expectTyp) ==
  IF w.raised THEN [cs EXCEPT !.st = UState(cs.st.tv, w.unions, <<>>)]
  ELSE ProbeUnified(cs, Unify(w.type, expectTyp, UState(cs.st.tv, w.unions, <<>>)))

\* try { wrapExpr(...); unify } catch (ParserException) { score = -1; }
\* w is what wrapExpr did.
ProbeWrapped(cs, w, expectTyp) ==
  IF w.raised THEN [cs EXCEPT !.score = -1, !.st = UState(cs.st.tv, w.unions, <<>>)]
  ELSE ProbeUnified(cs, Unify(w.type, expectTyp, UState(cs.st.tv, w.unions, <<>>)))

\* The body of the loop for one bound argument: wrapExpr(&dummy, expectTyp, fn),
\* then the unification, which is undone when it succeeds.
Probe(c, argType, expectTyp, raises, cs) ==
  ProbeWrapped(cs, WrapExpr(argType, expectTyp, c, raises, cs.st), expectTyp)

\* One iteration of `for (; score != -1 && ai < reordered.size(); ai++)`.
RECURSIVE CanCallLoop(_, _, _, _, _, _)
CanCallLoop(c, args, reordered, raises, ai, cs) ==
  IF cs.score = -1 \/ ai > Len(reordered) THEN cs
  ELSE
    LET isValue == c.params[ai].value
        expectTyp == IF isValue THEN ClassGenerics(c.type.generics[1])[cs.mai + 1]
                     ELSE c.type.funcGenerics[cs.gi + 1]
        cs1 == [cs EXCEPT !.mai = IF isValue THEN @ + 1 ELSE @,
                          !.gi = IF isValue THEN @ ELSE @ + 1]
        e == reordered[ai] IN
    IF e.type = None THEN CanCallLoop(c, args, reordered, raises, ai + 1, cs1)
    ELSE
      LET cs2 == [cs1 EXCEPT !.realGi = IF isValue THEN @ ELSE @ + 1] IN
      IF ~isValue THEN
        IF IsStaticType(expectTyp, cs2.st.tv) THEN
          IF ~IsStaticType(args[e.idx].type, cs2.st.tv)
          THEN [cs2 EXCEPT !.score = -1]
          ELSE CanCallLoop(c, args, reordered, raises, ai + 1,
                           Probe(c, args[e.idx].type, expectTyp, raises, cs2))
        ELSE CanCallLoop(c, args, reordered, raises, ai + 1, cs2)
      ELSE CanCallLoop(c, args, reordered, raises, ai + 1,
                       Probe(c, e.type, expectTyp, raises, cs2))

\* canCall's last statements giving the +1 whenever the probe succeeded.
CanCallReturn_BonusAlways(c, ro, cs) ==
  [score |-> IF cs.score >= 0 THEN cs.score + 1 ELSE cs.score,
   st |-> cs.st, base |-> ro.score, realGi |-> cs.realGi,
   reordered |-> ro.reordered]

\* if (score >= 0) score += (real_gi == fn->funcGenerics.size()); return score;
\* Returned with the score: the graph after, and the binding (ro) it came from.
CanCallReturn(c, ro, cs) ==
  [score |-> IF cs.score >= 0
             THEN cs.score + (IF cs.realGi = Len(c.type.funcGenerics) THEN 1 ELSE 0)
             ELSE cs.score,
   st |-> cs.st, base |-> ro.score, realGi |-> cs.realGi,
   reordered |-> ro.reordered]

\* The loop over `reordered`, started with the score of the binding ro.
CanCallBound(c, args, raises, st, ro) ==
  CanCallReturn(c, ro, CanCallLoop(c, args, ro.reordered, raises, 1,
                                   CallState(ro.score, 0, 0, 0, st)))

\* TypecheckVisitor::canCall(fn, args, part): the score and the graph after.
CanCall(c, args, part, base, raises, st) ==
  CanCallBound(c, args, raises, st, ReorderNamedArgs(c, args, part, base, st.tv))

\* if (score != -1) results.push_back(mi), for the canCall result r.
PushMatch(results, mi, r) ==
  [results |-> IF r.score # -1 THEN Append(results, mi) ELSE results, st |-> r.st]

\* findMatchingMethods: the methods canCall accepts, in the order given; each
\* probe starts in the graph the previous one left. acc is [results, st].
RECURSIVE FindMatchingMethods(_, _, _, _, _, _)
FindMatchingMethods(methods, args, base, raises, i, acc) ==
  IF i > Len(methods) THEN acc
  ELSE FindMatchingMethods(methods, args, base, raises, i + 1,
         PushMatch(acc.results, methods[i],
                   CanCall(methods[i], args, None, base, raises, acc.st)))

\* ctx->findMethod: the overloads of the member, the last declared first.
FindMethod(overloads) ==
  [i \in 1..Len(overloads) |-> overloads[Len(overloads) + 1 - i]]

\* The last of the matching methods instead of the first.
FirstMatch_Last(m) ==
  [best |-> IF m.results = <<>> THEN None ELSE m.results[Len(m.results)],
   matching |-> m.results, st |-> m.st]

\* return m.empty() ? nullptr : m[0];
FirstMatch(m) ==
  [best |-> IF m.results = <<>> THEN None ELSE m.results[1],
   matching |-> m.results, st |-> m.st]

\* findBestMethod(typ, member, args)
FindBestMethod(overloads, args, base, raises, st) ==
  FirstMatch(FindMatchingMethods(FindMethod(overloads), args, base, raises, 1,
                                 [results |-> <<>>, st |-> st]))

-----------------------------------------------------------------------------
(* The calls *)

\* The score reorderNamedArgs gives a successful binding: 0..MaxReorderScore.
MaxReorderScore == 1

\* The calls: no argument, one argument, or two where the first is one of
\* FirstArgs.
FirstArgs ==
  {CallArg("", t) : t \in {TInt, Tuple2(TStr, TInt), IntStatic(64)}}
  \cup {CallArg("b", TInt)}
ArgLists ==
  {<<>>} \cup {<<a>> : a \in CallArgs} \cup {<<a, b>> : a \in FirstArgs, b \in CallArgs}

PositionalArgLists ==
  {<<>>} \cup {<<CallArg("", t)>> : t \in ArgTypes}
  \cup {<<CallArg("", t), CallArg("", TypeOf(TInt))>> : t \in {TInt, Tuple2(TStr, TInt)}}

\* A partial of m.5 that has bound x.
Partials == {[known |-> <<1, 0>>, types |-> <<t>>] : t \in {TInt, TStr}}

PartsOf(c) == IF c.ast = "m.5" THEN {None} \cup Partials ELSE {None}

\* The overloads of one name, in declaration order.
OverloadPool == {CandInt("m.0"), CandInt("m.1"), CandFloat, CandGeneric}
OverloadTables ==
  {<<a>> : a \in OverloadPool}
  \cup {t \in {<<a, b>> : a \in OverloadPool, b \in OverloadPool} : t[1] # t[2]}
  \cup {t \in {<<a, b, c>> : a \in OverloadPool, b \in OverloadPool,
                             c \in OverloadPool} :
          t[1] # t[2] /\ t[1] # t[3] /\ t[2] # t[3]}

InitCall ==
  /\ tv \in {g \in InitBindings : g[0] = Unbound /\ g[2] = Unbound}
  /\ unions = InitUnions
  /\ cache = NoCache
  /\ op = "init"
  /\ res = [a |-> None, b |-> None, score |-> 0, log |-> <<>>]
  /\ pre = Graph

CanCallOp ==
  /\ op = "init"
  /\ \E c \in Candidates, args \in ArgLists, raises \in BOOLEAN,
        base \in 0..MaxReorderScore :
       \E part \in PartsOf(c) :
         \E r \in {CanCall(c, args, part, base, raises, UState(tv, unions, <<>>))} :
         /\ pre' = Graph
         /\ tv' = r.st.tv
         /\ unions' = r.st.unions
         /\ cache' = cache
         /\ op' = "canCall"
         /\ res' = [fn |-> c, args |-> args, part |-> part, raises |-> raises,
                    score |-> r.score, base |-> r.base, realGi |-> r.realGi,
                    reordered |-> r.reordered]

FindBestMethodOp ==
  /\ op = "init"
  /\ \E overloads \in OverloadTables, args \in PositionalArgLists,
        raises \in BOOLEAN, base \in 0..MaxReorderScore :
       \E r \in {FindBestMethod(overloads, args, base, raises,
                               UState(tv, unions, <<>>))} :
       /\ pre' = Graph
       /\ tv' = r.st.tv
       /\ unions' = r.st.unions
       /\ cache' = cache
       /\ op' = "findBestMethod"
       /\ res' = [overloads |-> overloads, args |-> args, raises |-> raises,
                  base |-> base, matching |-> r.matching, best |-> r.best]

NextCall == CanCallOp \/ FindBestMethodOp

SpecCall == InitCall /\ [][NextCall]_vars

-----------------------------------------------------------------------------
(* Properties of unify *)

\* A concrete type: no unbound node is reachable from it.
RECURSIVE Concrete(_, _)
Concrete(t, g) ==
  LET f == Follow(t, g) IN
  CASE f.k = "link" -> FALSE
    [] f.k = "class" -> \A j \in 1..Len(f.generics) : Concrete(f.generics[j], g)
    [] f.k = "func" ->
         /\ \A j \in 1..Len(f.generics) : Concrete(f.generics[j], g)
         /\ \A j \in 1..Len(f.funcGenerics) : Concrete(f.funcGenerics[j], g)
         /\ f.funcParent # None => Concrete(f.funcParent, g)
    [] OTHER -> TRUE

\* The score of matching a concrete class type against itself: 3 for the class
\* and the same again for every generic that is a class; a static adds nothing.
RECURSIVE SelfScore(_, _)
RECURSIVE SelfScoreSum(_, _, _)
SelfScoreSum(gs, i, g) ==
  IF i > Len(gs) THEN 0 ELSE SelfScore(gs[i], g) + SelfScoreSum(gs, i + 1, g)
SelfScore(t, g) ==
  LET f == Follow(t, g) IN
  IF f.k = "class" THEN 3 + SelfScoreSum(f.generics, 1, g) ELSE 0

PreState == UState(pre.tv, pre.unions, <<>>)

IsUnifyOp == op \in {"unifyClass", "unifyFunc"}
ReflexiveCall == IsUnifyOp /\ res.a = res.b /\ Concrete(res.a, pre.tv)

\* C7 as stated: unify(t, t) of a concrete class or function type returns
\* exactly 0 and mutates nothing.
C7_ReflexiveScoreZero ==
  ReflexiveCall => (res.score = 0 /\ Graph = pre)

\* C7 amended: unify(t, t) of a concrete type succeeds and mutates nothing; the
\* score is 0 for a function type (the same object) and, for a class type, the
\* class-match score: 3 plus the scores of its generics against themselves.
C7_Reflexive ==
  ReflexiveCall =>
    /\ res.score >= 0
    /\ Graph = pre
    /\ res.log = <<>>
    /\ res.a.k = "func" => res.score = 0
    /\ res.a.k = "class" => res.score = SelfScore(res.a, pre.tv)

C7_Witness ==
  /\ ReflexiveCall
  /\ res.a.k = "func"
  /\ res.a.funcParent # None

C7_WitnessClass ==
  /\ ReflexiveCall
  /\ res.a.k = "class"
  /\ res.score > 3

\* The scores of unifying the generics pairwise, in declared order, each in the
\* state the previous one left: their sum, or -1 when one of them fails.
RECURSIVE PairwiseSum(_, _, _, _)
PairwiseSum(as, bs, i, st) ==
  IF i > Len(as) THEN 0
  ELSE LET r == Unify(as[i], bs[i], st) IN
       IF r.s = -1 THEN -1
       ELSE LET rest == PairwiseSum(as, bs, i + 1, r.st) IN
            IF rest = -1 THEN -1 ELSE r.s + rest

\* The class the second argument of the last call is.
ResB == GetClass(res.b, pre.tv)

SameNameCall ==
  /\ op = "unifyClass"
  /\ ResB # None
  /\ ClassName(res.a) = ClassName(ResB)

\* C8: two ClassTypes of the same name: a different number of generics gives
\* -1; otherwise a successful unification scores exactly 3 plus the sum of the
\* scores of the pairwise generic unifications.
C8_ClassScore ==
  SameNameCall =>
    /\ Len(ClassGenerics(res.a)) # Len(ClassGenerics(ResB)) => res.score = -1
    /\ (Len(ClassGenerics(res.a)) = Len(ClassGenerics(ResB)) /\ res.score >= 0) =>
         res.score = 3 + PairwiseSum(ClassGenerics(res.a), ClassGenerics(ResB), 1, PreState)

C8_Witness ==
  /\ SameNameCall
  /\ Len(ClassGenerics(res.a)) = 2
  /\ res.score > 3
  /\ res.log # <<>>

C8_WitnessArity ==
  /\ SameNameCall
  /\ Len(ClassGenerics(res.a)) # Len(ClassGenerics(ResB))

DiffNameCall ==
  /\ op = "unifyClass"
  /\ ResB # None
  /\ ClassName(res.a) # ClassName(ResB)

\* The width generic of whichever side of the last call is Int[N].
WidthGeneric ==
  IF ClassName(res.a) = "Int" THEN ClassGenerics(res.a)[1] ELSE ClassGenerics(ResB)[1]

\* C9: ClassTypes of different names never unify, except int and Int[N], in
\* either order, which unify exactly when N unifies with the static 64.
C9_DifferentNames ==
  DiffNameCall =>
    IF {ClassName(res.a), ClassName(ResB)} = {"int", "Int"}
    THEN res.score = Unify(WidthGeneric, IntStatic(64), PreState).s
    ELSE res.score = -1

C9_Witness ==
  /\ DiffNameCall
  /\ ClassName(res.a) = "int"
  /\ ClassName(ResB) = "Int"
  /\ res.score >= 0
  /\ tv[0] = IntStatic(64)
  /\ pre.tv[0] = Unbound

C9_WitnessFail ==
  /\ DiffNameCall
  /\ ClassName(res.a) = "Int"
  /\ ClassName(ResB) = "int"
  /\ res.score = -1

\* The function type the second argument of the last call is.
ResF == GetFunc(res.b, pre.tv)

TwoFuncsCall ==
  /\ op = "unifyFunc"
  /\ res.a # res.b
  /\ ResF # None

\* The conditions C10 lists, each checked in the state the previous left.
FuncsAgree ==
  LET a == res.a
      b == ResF IN
  /\ a.ast = b.ast
  /\ a.index = b.index
  /\ (a.funcParent # None) = (b.funcParent # None)
  /\ LET rp == IF a.funcParent # None
               THEN Unify(a.funcParent, b.funcParent, PreState)
               ELSE URes(0, PreState) IN
     /\ rp.s >= 0
     /\ LET rg == UnifyList(a.funcGenerics, b.funcGenerics, 1, 0, rp.st) IN
        /\ rg.s >= 0
        /\ PairwiseSum(ClassGenerics(a), ClassGenerics(b), 1, rg.st) >= 0

\* C10: two distinct FuncType objects unify with a score >= 0 only if the
\* declaration names and indices are equal, both or neither have a parent and
\* the parents unify, the function generics unify pairwise in order and the
\* ClassType-level unification succeeds; otherwise the result is -1.
C10_FuncUnify ==
  TwoFuncsCall =>
    /\ res.score >= 0 => FuncsAgree
    /\ ~FuncsAgree => res.score = -1

C10_Witness ==
  /\ TwoFuncsCall
  /\ res.score >= 0
  /\ res.a.funcParent # None
  /\ res.log # <<>>

C10_WitnessIndex ==
  /\ TwoFuncsCall
  /\ res.a.ast = ResF.ast
  /\ res.a.index # ResF.index
  /\ res.score = -1

-----------------------------------------------------------------------------
(* Properties of canCall and findBestMethod *)

IsCanCall == op = "canCall"

\* The declared type of parameter si: the next argument type for a value
\* parameter, the next function generic otherwise.
ExpectTyp(c, si) ==
  IF c.params[si].value
  THEN ClassGenerics(c.type.generics[1])[Cardinality({h \in 1..si : c.params[h].value})]
  ELSE c.type.funcGenerics[Cardinality({h \in 1..si : ~c.params[h].value})]

\* The parameters whose bound argument the call checks against the declared
\* type: value parameters and static generics that received an argument.
Probed ==
  {si \in 1..Len(res.reordered) :
     /\ res.reordered[si].type # None
     /\ (res.fn.params[si].value \/ IsStaticType(ExpectTyp(res.fn, si), pre.tv))}

\* What wrapping the argument of si gives, and how the wrapped / the supplied
\* type unifies with the declared type, in the graph the call started in.
WrapOf(si) ==
  WrapExpr(res.reordered[si].type, ExpectTyp(res.fn, si), res.fn, res.raises, PreState)
UnifyOf(si) ==
  LET w == WrapOf(si) IN
  Unify(w.type, ExpectTyp(res.fn, si), UState(pre.tv, w.unions, <<>>))
DirectUnifyOf(si) ==
  Unify(res.reordered[si].type, ExpectTyp(res.fn, si), PreState)
WrappedUnifyFails(si) == ~WrapOf(si).raised /\ UnifyOf(si).s = -1

\* Missing required slot, duplicate slot or unknown name.
BindingFails == ReorderFails(res.fn.params, res.args, PartialMask(res.part))

\* C1 as stated: after canCall returns, with -1 or with a score >= 0, every
\* type variable of the caller has the binding, and every union the members,
\* it had immediately before the call.
C1_ProbeHasNoEffect ==
  IsCanCall =>
    /\ \A i \in CallerVarIds : tv[i] = pre.tv[i]
    /\ unions = pre.unions

\* C2 as stated: when the unification of an argument fails, every binding made
\* during the failed attempt is rolled back, so the bindings equal the ones
\* before the attempt.
C2_FailedUnifyRolledBack ==
  (IsCanCall /\ \E si \in Probed : WrappedUnifyFails(si)) =>
    \A i \in VarIds : tv[i] = pre.tv[i]

\* Two overloads with structurally identical parameters.
SameParams(a, b) == a.params = b.params /\ a.type.generics = b.type.generics
Matches(m) == \E h \in 1..Len(res.matching) : res.matching[h] = m

\* C3: when two overloads with identical parameter types both accept the
\* arguments, findBestMethod does not select the one declared earlier: it
\* selects the later one, or an accepting overload declared later still.
C3_LaterDeclaredWins ==
  op = "findBestMethod" =>
    \A i, j \in 1..Len(res.overloads) :
      (/\ i < j
       /\ SameParams(res.overloads[i], res.overloads[j])
       /\ Matches(res.overloads[i])
       /\ Matches(res.overloads[j]))
      => /\ res.best # None
         /\ res.best # res.overloads[i]
         /\ \/ res.best = res.overloads[j]
            \/ \E h \in (j + 1)..Len(res.overloads) :
                 Matches(res.overloads[h]) /\ res.best = res.overloads[h]

\* Both declarations of m(x: int) accept the call and the later one is chosen.
C3_Witness ==
  /\ op = "findBestMethod"
  /\ \E i, j \in 1..Len(res.overloads) :
       /\ i < j
       /\ SameParams(res.overloads[i], res.overloads[j])
       /\ Matches(res.overloads[i])
       /\ Matches(res.overloads[j])
       /\ res.best = res.overloads[j]

\* C4 as stated: if a supplied argument's type fails to unify with the declared
\* parameter type, or wrapping it raises, or the binding fails, canCall
\* returns -1.
C4_SuppliedTypeFailureRejects ==
  IsCanCall =>
    ((\/ BindingFails
      \/ \E si \in Probed : WrapOf(si).raised \/ DirectUnifyOf(si).s = -1)
     => res.score = -1)

\* C4: if the type an argument has after wrapExpr fails to unify with the
\* declared parameter type, or wrapping the argument raises, or the binding
\* fails, canCall returns -1.
C4_WrappedTypeFailureRejects ==
  IsCanCall =>
    ((\/ BindingFails
      \/ \E si \in Probed : WrapOf(si).raised \/ WrappedUnifyFails(si))
     => res.score = -1)

\* An argument is bound, wrapped without raising, and fails to unify.
C4_Witness ==
  /\ IsCanCall
  /\ ~BindingFails
  /\ \E si \in Probed : WrappedUnifyFails(si) /\ DirectUnifyOf(si).s = -1
  /\ res.score = -1

\* Wrapping a bound argument raises.
C4_WitnessRaise ==
  /\ IsCanCall
  /\ \E si \in Probed : WrapOf(si).raised
  /\ res.score = -1

\* The binding fails.
C4_WitnessBinding == IsCanCall /\ BindingFails /\ res.score = -1

\* An int argument for a float parameter: the supplied type does not unify,
\* the wrapped one does.
C4_WitnessCoerced ==
  /\ IsCanCall
  /\ \E si \in Probed : DirectUnifyOf(si).s = -1 /\ ~WrappedUnifyFails(si)
  /\ res.score >= 0

\* The sum of the scores of the unifications an accepted call made.
RECURSIVE UnifySumFrom(_)
UnifySumFrom(si) ==
  IF si > Len(res.reordered) THEN 0
  ELSE (IF si \in Probed THEN UnifyOf(si).s ELSE 0) + UnifySumFrom(si + 1)
UnifySum == UnifySumFrom(1)

\* C5 as stated: the score of an accepted candidate includes the sum of the
\* scores of the unifications of its arguments.
C5_ScoreAccumulatesUnify ==
  (IsCanCall /\ res.score >= 0) =>
    res.score \in {res.base + UnifySum, res.base + UnifySum + 1}

\* C5: the score of an accepted candidate is the score of the argument
\* binding, plus at most the +1 of C6; the scores of the unifications are not
\* part of it.
C5_ScoreIgnoresUnify ==
  (IsCanCall /\ res.score >= 0) => res.score \in {res.base, res.base + 1}

\* An accepted call whose unifications scored more than 0.
C5_Witness ==
  /\ IsCanCall
  /\ res.score >= 0
  /\ UnifySum >= 3
  /\ res.score <= res.base + 1

\* Every generic parameter of the candidate received an argument of its own.
AllGenericsExplicit ==
  \A si \in 1..Len(res.fn.params) :
    ~res.fn.params[si].value => res.reordered[si].type # None

\* The parameter that declares the k-th function generic.
GenericSlot(c, k) ==
  CHOOSE si \in 1..Len(c.params) :
    ~c.params[si].value /\ Cardinality({h \in 1..si : ~c.params[h].value}) = k

\* The k-th function generic was determined during the probe: it received an
\* argument, or unifying an argument with its parameter type bound it.
Determined(k) ==
  \/ res.reordered[GenericSlot(res.fn, k)].type # None
  \/ /\ res.fn.type.funcGenerics[k].k = "link"
     /\ \E si \in Probed :
          IsBound(res.fn.type.funcGenerics[k].id, UnifyOf(si).st.tv)

\* C6 as stated: an accepted call gets +1 if and only if every function
\* generic was determined during the probe.
C6_BonusIffDetermined ==
  (IsCanCall /\ res.score >= 0) =>
    ((res.score = res.base + 1)
       <=> \A k \in 1..Len(res.fn.type.funcGenerics) : Determined(k))

\* C6: an accepted call gets +1 if and only if every generic parameter of the
\* candidate received an explicit argument (a candidate without generics
\* always does); a generic inferred from a value argument does not count.
C6_BonusIffExplicit ==
  (IsCanCall /\ res.score >= 0) =>
    /\ AllGenericsExplicit => res.score = res.base + 1
    /\ ~AllGenericsExplicit => res.score = res.base

\* A generic candidate is accepted with its generic given explicitly.
C6_Witness ==
  /\ IsCanCall
  /\ res.score = res.base + 1
  /\ res.fn.type.funcGenerics # <<>>
  /\ AllGenericsExplicit

\* A generic candidate is accepted with its generic inferred from the argument.
C6_WitnessInferred ==
  /\ IsCanCall
  /\ res.score = res.base
  /\ res.base >= 0
  /\ \A k \in 1..Len(res.fn.type.funcGenerics) : Determined(k)
  /\ ~AllGenericsExplicit

-----------------------------------------------------------------------------
(* Queries on types: hasUnbounds, getUnbounds, canRealize *)

\* FuncType::getArgTypes and FuncType::getRetType
GetArgTypes(f) == f.generics[1].generics
GetRetType(f) == f.generics[2]

\* The declarations with Attr::RealizeWithoutSelf.
RealizeWithoutSelf == {"h"}

RECURSIVE HasUnbounds(_, _)
RECURSIVE GetUnbounds(_, _)
RECURSIVE CanRealize(_, _)

\* LinkType::hasUnbounds: an Unbound node is one, a Link asks its target.
LinkHasUnbounds(t, g) ==
  IF IsBound(t.id, g) THEN HasUnbounds(g[t.id], g) ELSE TRUE

\* ClassType::hasUnbounds
ClassHasUnbounds(t, g) ==
  \E i \in 1..Len(ClassGenerics(t)) : HasUnbounds(ClassGenerics(t)[i], g)

\* FuncType::hasUnbounds: the function generics, the parent, the argument
\* types, and then `return getRetType()->hasUnbounds(includeGenerics)`.
FuncHasUnbounds(f, g) ==
  IF \E i \in 1..Len(f.funcGenerics) : HasUnbounds(f.funcGenerics[i], g) THEN TRUE
  ELSE IF f.funcParent # None /\ HasUnbounds(f.funcParent, g) THEN TRUE
  ELSE IF \E i \in 1..Len(GetArgTypes(f)) : HasUnbounds(GetArgTypes(f)[i], g) THEN TRUE
  ELSE HasUnbounds(GetRetType(f), g)

\* Type::hasUnbounds(includeGenerics = false)
HasUnbounds(t, g) ==
  CASE t.k = "link" -> LinkHasUnbounds(t, g)
    [] t.k = "func" -> FuncHasUnbounds(t, g)
    [] OTHER -> ClassHasUnbounds(t, g)

\* The unbounds of a list of types; each one's are put in front of the
\* earlier ones: u.insert(u.begin(), tu.begin(), tu.end()).
RECURSIVE UnboundsOf(_, _, _, _)
UnboundsOf(ts, i, u, g) ==
  IF i > Len(ts) THEN u
  ELSE UnboundsOf(ts, i + 1, GetUnbounds(ts[i], g) \o u, g)

\* FuncType::getUnbounds: function generics, parent, argument types; the
\* return type is skipped.
FuncGetUnbounds(f, g) ==
  UnboundsOf(GetArgTypes(f), 1,
             (IF f.funcParent # None THEN GetUnbounds(f.funcParent, g) ELSE <<>>)
               \o UnboundsOf(f.funcGenerics, 1, <<>>, g),
             g)

\* Type::getUnbounds: the ids of the unbound nodes.
GetUnbounds(t, g) ==
  CASE t.k = "link" ->
         IF IsBound(t.id, g) THEN GetUnbounds(g[t.id], g) ELSE <<t.id>>
    [] t.k = "func" -> FuncGetUnbounds(t, g)
    [] OTHER -> UnboundsOf(ClassGenerics(t), 1, <<>>, g)

\* LinkType::canRealize: an Unbound node is not realizable.
LinkCanRealize(t, g) ==
  IF IsBound(t.id, g) THEN CanRealize(g[t.id], g) ELSE FALSE

\* ClassType::canRealize
ClassCanRealize(t, g) ==
  IF ClassName(t) = "type" /\ ~ClassHasUnbounds(t, g) THEN TRUE
  ELSE \A i \in 1..Len(ClassGenerics(t)) : CanRealize(ClassGenerics(t)[i], g)

\* FuncType::canRealize that also asks the return type.
FuncCanRealize_AskRet(f, g) ==
  LET skipSelf == IF f.ast \in RealizeWithoutSelf THEN 1 ELSE 0
      args == GetArgTypes(f) IN
  IF \E ai \in (skipSelf + 1)..Len(args) :
       GetFunc(args[ai], g) = None /\ ~CanRealize(args[ai], g)
  THEN FALSE
  ELSE /\ \A i \in 1..Len(f.funcGenerics) : CanRealize(f.funcGenerics[i], g)
       /\ (skipSelf = 0 => (f.funcParent = None \/ CanRealize(f.funcParent, g)))
       /\ CanRealize(GetRetType(f), g)

\* FuncType::canRealize: the arguments from skipSelf on that are not
\* functions, the function generics, and the parent unless skipSelf.
FuncCanRealize(f, g) ==
  LET skipSelf == IF f.ast \in RealizeWithoutSelf THEN 1 ELSE 0
      args == GetArgTypes(f) IN
  IF \E ai \in (skipSelf + 1)..Len(args) :
       GetFunc(args[ai], g) = None /\ ~CanRealize(args[ai], g)
  THEN FALSE
  ELSE /\ \A i \in 1..Len(f.funcGenerics) : CanRealize(f.funcGenerics[i], g)
       /\ (skipSelf = 0 => (f.funcParent = None \/ CanRealize(f.funcParent, g)))

\* UnionType::canRealize: sealed, with realizable members.
UnionCanRealize(t, un, g) ==
  /\ un[t.uid].sealed
  /\ \A i \in 1..Len(un[t.uid].pending) : CanRealize(un[t.uid].pending[i], g)

\* Type::canRealize
CanRealize(t, g) ==
  CASE t.k = "link" -> LinkCanRealize(t, g)
    [] t.k = "func" -> FuncCanRealize(t, g)
    [] t.k = "static" -> TRUE
    [] t.k = "union" -> UnionCanRealize(t, InitUnions, g)
    [] OTHER -> ClassCanRealize(t, g)

\* The function types the queries are applied to: declarations f and h (h is
\* realized without self), with a parameter that may be a function itself.
InnerFunc == Func(3, "g", 0, <<>>, None, <<Var(1)>>, TInt)
SigArgTypes == {TInt, Var(1), Var(2), List(Var(1)), InnerFunc}
SigArgs == {<<a>> : a \in SigArgTypes} \cup {<<a, b>> : a \in SigArgTypes, b \in SigArgTypes}
SigTypes ==
  {Func(1, a, 0, fg, p, args, ret) :
     a \in {"f", "h"}, fg \in {<<>>, <<TInt>>, <<Var(2)>>},
     p \in {None, TInt, List(Var(2))}, args \in SigArgs,
     ret \in {TInt, Var(1), List(Var(1))}}

InitType ==
  /\ tv \in {g \in InitBindings : g[0] = Unbound}
  /\ unions = InitUnions
  /\ cache = NoCache
  /\ op = "init"
  /\ res = [t |-> None]
  /\ pre = Graph

\* f->hasUnbounds(), f->getUnbounds()
HasUnboundsOp ==
  /\ op = "init"
  /\ \E f \in SigTypes :
       /\ op' = "hasUnbounds"
       /\ res' = [t |-> f, hasUnbounds |-> HasUnbounds(f, tv),
                  unbounds |-> GetUnbounds(f, tv)]
       /\ pre' = Graph
       /\ UNCHANGED <<tv, unions, cache>>

\* f->canRealize()
CanRealizeOp ==
  /\ op = "init"
  /\ \E f \in SigTypes :
       /\ op' = "canRealize"
       /\ res' = [t |-> f, canRealize |-> CanRealize(f, tv)]
       /\ pre' = Graph
       /\ UNCHANGED <<tv, unions, cache>>

-----------------------------------------------------------------------------
(* realizedName.  A name is the sequence of its pieces: <<"List", "[", "int", "]">> *)

\* join(gs, ",")
RECURSIVE Join(_, _)
Join(gs, i) ==
  IF i > Len(gs) THEN <<>>
  ELSE gs[i] \o (IF i < Len(gs) THEN <<",">> ELSE <<>>) \o Join(gs, i + 1)

\* fmt::format("{}{}", name, s.empty() ? "" : fmt::format("[{}]", s))
Bracketed(name, s) == name \o (IF s = <<>> THEN <<>> ELSE <<"[">> \o s \o <<"]">>)

\* Generic::isStatic of the i-th generic of a class: only N of Int[N] is.
GenericIsStatic(name, i) == name = "Int"

RECURSIVE RealizedName(_, _)

\* ClassType::realizedName: a static type held by a generic that is not
\* declared static contributes the name of its class, not its value.
ClassRealizedName(t, g) ==
  Bracketed(<<t.name>>,
    Join([i \in 1..Len(t.generics) |->
            IF ~GenericIsStatic(t.name, i) /\ Follow(t.generics[i], g).k = "static"
            THEN <<ClassName(Follow(t.generics[i], g))>>
            ELSE RealizedName(t.generics[i], g)], 1))

\* FuncType::realizedName without the index of the overload.
FuncRealizedName_NoIndex(f, g) ==
  LET gs == Join([i \in 1..Len(f.funcGenerics) |-> RealizedName(f.funcGenerics[i], g)], 1)
      as == Join([i \in 1..Len(GetArgTypes(f)) |-> RealizedName(GetArgTypes(f)[i], g)], 1) IN
  (IF f.funcParent # None THEN RealizedName(f.funcParent, g) \o <<":">> ELSE <<>>)
    \o Bracketed(<<f.ast>>, IF gs = <<>> THEN as ELSE Join(<<as, gs>>, 1))

\* FuncType::realizedName: parent, declaration, index, argument types and
\* function generics; the return type is not part of it.
FuncRealizedName(f, g) ==
  LET gs == Join([i \in 1..Len(f.funcGenerics) |-> RealizedName(f.funcGenerics[i], g)], 1)
      as == Join([i \in 1..Len(GetArgTypes(f)) |-> RealizedName(GetArgTypes(f)[i], g)], 1) IN
  (IF f.funcParent # None THEN RealizedName(f.funcParent, g) \o <<":">> ELSE <<>>)
    \o Bracketed(<<f.ast>> \o (IF f.index # 0 THEN <<"/", ToString(f.index)>> ELSE <<>>),
                 IF gs = <<>> THEN as ELSE Join(<<as, gs>>, 1))

\* Type::realizedName; a link gives the name of its target ("?" while it is
\* unbound), a static its value.
RealizedName(t, g) ==
  CASE t.k = "link" -> IF IsBound(t.id, g) THEN RealizedName(g[t.id], g) ELSE <<"?">>
    [] t.k = "func" -> FuncRealizedName(t, g)
    [] t.k = "static" -> <<ToString(t.value)>>
    [] OTHER -> ClassRealizedName(t, g)

\* The types that are named: classes, some holding a static value, and
\* instantiations of f.
NamedTypes ==
  {TInt, TStr, IntN(IntStatic(64)), IntN(IntStatic(32)), IntN(Var(0)),
   Tuple2(TInt, TStr), Tuple2(TStr, TInt)}
  \cup {List(a) : a \in {TInt, TStr, Var(1), IntStatic(64), IntStatic(32)}}
  \cup {Func(1, "f", ix, fg, p, <<a>>, ret) :
          ix \in {0, 1}, fg \in {<<TInt>>, <<TStr>>}, p \in {None, TInt},
          a \in {TInt, TStr}, ret \in {TInt, TStr, Var(1)}}

\* a->realizedName(), b->realizedName() for two realizable types, and the score
\* of unifying them.
RealizedNameOp ==
  /\ op = "init"
  /\ \E t \in {x \in NamedTypes : CanRealize(x, tv)},
        u \in {x \in NamedTypes : CanRealize(x, tv)} :
       /\ op' = "realizedName"
       /\ res' = [t |-> t, u |-> u,
                  nameT |-> RealizedName(t, tv), nameU |-> RealizedName(u, tv),
                  score |-> Unify(t, u, UState(tv, unions, <<>>)).s]
       /\ pre' = Graph
       /\ UNCHANGED <<tv, unions, cache>>

NextType == HasUnboundsOp \/ CanRealizeOp \/ RealizedNameOp

SpecType == InitType /\ [][NextType]_vars

-----------------------------------------------------------------------------
(* Properties of the queries *)

\* No Unbound is reachable from the list of types.
NoUnboundIn(ts, g) == \A i \in 1..Len(ts) : ~HasUnbounds(ts[i], g)

\* The function generics, the parent and the parameter types of res.t contain
\* no Unbound.
SignatureBound ==
  /\ NoUnboundIn(res.t.funcGenerics, tv)
  /\ res.t.funcParent # None => ~HasUnbounds(res.t.funcParent, tv)
  /\ NoUnboundIn(GetArgTypes(res.t), tv)

\* C11 as stated: for a function type whose function generics, parent and
\* parameter types contain no Unbound, hasUnbounds returns false, even when
\* the return type contains an Unbound.
C11_HasUnboundsIgnoresReturn ==
  (op = "hasUnbounds" /\ SignatureBound) => ~res.hasUnbounds

\* getUnbounds, unlike hasUnbounds, does skip the return type.
C11_GetUnboundsIgnoresReturn ==
  (op = "hasUnbounds" /\ SignatureBound) => res.unbounds = <<>>

\* The parameters canRealize looks at: all but an exempted self.
NonExempt(f) ==
  {ai \in 1..Len(GetArgTypes(f)) : ~(ai = 1 /\ f.ast \in RealizeWithoutSelf)}

\* Parameters, generics and parent of res.t are realizable. The parent of a
\* function realized without self is not asked.
SignatureRealizable ==
  /\ \A ai \in NonExempt(res.t) : CanRealize(GetArgTypes(res.t)[ai], tv)
  /\ \A i \in 1..Len(res.t.funcGenerics) : CanRealize(res.t.funcGenerics[i], tv)
  /\ res.t.funcParent # None => CanRealize(res.t.funcParent, tv)

\* C12 as stated: a function type with realizable parameters, generics and
\* parent is realizable whatever its return type is, and an unrealizable
\* non-exempt parameter type always makes it unrealizable.
C12_CanRealizeIgnoresReturn ==
  op = "canRealize" =>
    /\ SignatureRealizable => res.canRealize
    /\ (\E ai \in NonExempt(res.t) : ~CanRealize(GetArgTypes(res.t)[ai], tv))
         => ~res.canRealize

\* C12: canRealize never asks the return type. A function type is realizable
\* exactly when its function generics, its non-exempt parameter types that are
\* not function types themselves and, unless it is realized without self, its
\* parent are realizable; a parameter that is a function type is never asked.
C12_CanRealizeSkipsReturnAndFuncs ==
  op = "canRealize" =>
    (res.canRealize <=>
       /\ \A ai \in NonExempt(res.t) :
            \/ GetFunc(GetArgTypes(res.t)[ai], tv) # None
            \/ CanRealize(GetArgTypes(res.t)[ai], tv)
       /\ \A i \in 1..Len(res.t.funcGenerics) : CanRealize(res.t.funcGenerics[i], tv)
       /\ \/ res.t.ast \in RealizeWithoutSelf
          \/ res.t.funcParent = None
          \/ CanRealize(res.t.funcParent, tv))

\* A function type with an unbound return type is realizable.
C12_Witness ==
  /\ op = "canRealize"
  /\ SignatureRealizable
  /\ ~CanRealize(GetRetType(res.t), tv)
  /\ res.canRealize

\* An unrealizable parameter makes the function type unrealizable.
C12_WitnessParam ==
  /\ op = "canRealize"
  /\ \E ai \in NonExempt(res.t) :
       /\ GetFunc(GetArgTypes(res.t)[ai], tv) = None
       /\ ~CanRealize(GetArgTypes(res.t)[ai], tv)
  /\ \A i \in 1..Len(res.t.funcGenerics) : CanRealize(res.t.funcGenerics[i], tv)
  /\ ~res.canRealize

RECURSIVE StaticInPlainSlot(_, _)
StaticInPlainSlot(t, g) ==
  LET f == Follow(t, g) IN
  /\ f.k \in {"class", "func"}
  /\ \/ \E i \in 1..Len(f.generics) :
          \/ ~GenericIsStatic(f.name, i) /\ Follow(f.generics[i], g).k = "static"
          \/ StaticInPlainSlot(f.generics[i], g)
     \/ f.k = "func" /\ \E i \in 1..Len(f.funcGenerics) : StaticInPlainSlot(f.funcGenerics[i], g)

C13_WitnessReturn ==
  /\ op = "realizedName"
  /\ res.score = -1
  /\ res.t.k = "func" /\ res.u.k = "func"
  /\ res.nameT = res.nameU

-----------------------------------------------------------------------------
(* Partial calls: generatePartialStub *)

\* The most requests of a stub in one behaviour.
MaxRequests == 3

\* The functions that are called partially, and the masks of each.
PartialFns == {CandInt("m.0"), CandGeneric, CandDefault, CandStatic}
Masks(c) == [1..Len(c.params) -> BOOLEAN]

\* fn->toString(): the name of the function.
FuncToString(fn) == <<fn.ast>>

\* strMask: '1' for an argument that is known, '0' for one that is not.
StrMask(mask) == [i \in 1..Len(mask) |-> IF mask[i] THEN "1" ELSE "0"]

\* tupleSize counting every known argument, generic or not.
TupleSize_CountGenerics(mask, c) == Cardinality({i \in 1..Len(mask) : mask[i]})

\* tupleSize: the known arguments whose status is Param::Normal.
TupleSize(mask, c) == Cardinality({i \in 1..Len(mask) : mask[i] /\ c.params[i].value})

\* generateTuple(n, name, {}, false): the record class `name` of n fields.
GenerateTuple(n, name) == [name |-> name, fields |-> n]

\* ctx->find(typeName)
Find(ch, name) == \E cl \in ch.classes : cl.name = name

\* generatePartialStub that does not look the name up first.
GeneratePartialStub_NoFind(mask, c, ch) ==
  [typeName |-> <<"Partial.">> \o StrMask(mask) \o <<".">> \o FuncToString(c.type),
   cache |-> [partials |-> {e \in ch.partials :
                              e.name # <<"Partial.">> \o StrMask(mask) \o <<".">> \o FuncToString(c.type)}
                           \cup {[name |-> <<"Partial.">> \o StrMask(mask) \o <<".">> \o FuncToString(c.type),
                                  fn |-> ch.made + 1, ast |-> c.ast, mask |-> mask]},
              classes |-> ch.classes
                           \cup {GenerateTuple(TupleSize(mask, c) + 2,
                                   <<"Partial.">> \o StrMask(mask) \o <<".">> \o FuncToString(c.type))},
              made |-> ch.made + 1]]

\* generatePartialStub(mask, fn): [typeName, cache]. The entry of the partials
\* table holds the object that fn->generalize(0) makes.
GeneratePartialStub(mask, c, ch) ==
  IF Find(ch, <<"Partial.">> \o StrMask(mask) \o <<".">> \o FuncToString(c.type))
  THEN [typeName |-> <<"Partial.">> \o StrMask(mask) \o <<".">> \o FuncToString(c.type),
        cache |-> ch]
  ELSE GeneratePartialStub_NoFind(mask, c, ch)

InitPartial ==
  /\ tv = [i \in VarIds |-> Unbound]
  /\ unions = InitUnions
  /\ cache = NoCache
  /\ op = "init"
  /\ res = <<>>
  /\ pre = Graph

\* visit(CallExpr) of a partial call: the stub of calleeFn for part.known.
\* res is the list of the requests made so far.
GeneratePartialStubOp ==
  /\ Len(res) < MaxRequests
  /\ \E c \in PartialFns :
       \E mask \in Masks(c) : \E r \in {GeneratePartialStub(mask, c, cache)} :
         /\ op' = "generatePartialStub"
         /\ res' = Append(res, [fn |-> c, mask |-> mask, typeName |-> r.typeName,
                                before |-> cache, after |-> r.cache])
         /\ cache' = r.cache
         /\ pre' = Graph
         /\ UNCHANGED <<tv, unions>>

NextPartial == GeneratePartialStubOp

SpecPartial == InitPartial /\ [][NextPartial]_vars

StubOf(r) == CHOOSE cl \in r.after.classes : cl.name = r.typeName

C15_WitnessGeneric ==
  /\ Len(res) >= 1
  /\ res[1].fn = CandGeneric
  /\ res[1].mask = <<TRUE, TRUE>>
  /\ StubOf(res[1]).fields = 3

-----------------------------------------------------------------------------
(* Union types: addType, seal, and the operations that add members *)

\* The classes that are added to, coerced to and unified with the unions.
MemberTypes == {TInt, TStr, TFloat, List(TInt)}

InitUnion ==
  /\ tv = [i \in VarIds |-> Unbound]
  /\ unions = InitUnions
  /\ cache = NoCache
  /\ op = "init"
  /\ res = [u |-> 0, c |-> None]
  /\ pre = Graph

\* typ->getUnion()->addType(t)
AddTypeOp ==
  \E u \in UnionIds, c \in MemberTypes :
    /\ op' = "addType"
    /\ res' = [u |-> u, c |-> c]
    /\ unions' = AddType(u, c, unions)
    /\ pre' = Graph
    /\ UNCHANGED <<tv, cache>>

\* typ->getUnion()->seal()
SealOp ==
  \E u \in UnionIds :
    /\ op' = "seal"
    /\ res' = [u |-> u, c |-> None]
    /\ unions' = Seal(u, unions)
    /\ pre' = Graph
    /\ UNCHANGED <<tv, cache>>

\* wrapExpr(expr, Union, callee) for an expression of class c
CoerceOp ==
  \E u \in UnionIds, c \in MemberTypes, raises \in BOOLEAN :
    /\ op' = "wrapExpr"
    /\ res' = [u |-> u, c |-> c]
    /\ unions' = WrapExpr(c, Union(u), CandInt("m.0"), raises,
                          UState(tv, unions, <<>>)).unions
    /\ pre' = Graph
    /\ UNCHANGED <<tv, cache>>

\* union->unify(c, nullptr)
UnifyUnionOp ==
  \E u \in UnionIds, c \in MemberTypes :
    /\ op' = "unify"
    /\ res' = [u |-> u, c |-> c]
    /\ unions' = Unify(Union(u), c, UState(tv, unions, <<>>)).st.unions
    /\ pre' = Graph
    /\ UNCHANGED <<tv, cache>>

NextUnion == AddTypeOp \/ SealOp \/ CoerceOp \/ UnifyUnionOp

SpecUnion == InitUnion /\ [][NextUnion]_vars

\* C16: a union that was sealed when an operation started has the same
\* members, in the same order, and is still sealed when the operation is over.
C16_SealedNeverChanges ==
  \A u \in UnionIds : pre.unions[u].sealed => unions[u] = pre.unions[u]

\* Union 1 was sealed by seal(), and coercing an expression whose class is
\* not a member of it added nothing.
C16_Witness ==
  /\ op = "wrapExpr"
  /\ res.u = 1
  /\ pre.unions[1].sealed
  /\ \A j \in 1..Len(pre.unions[1].pending) : pre.unions[1].pending[j] # res.c
  /\ unions[1] = pre.unions[1]

-----------------------------------------------------------------------------
(* generalize and instantiate *)

\* A LinkType of kind Generic.
Generic(i) == [k |-> "generic", id |-> i]

\* A ClassType with its hidden generics and its tuple flag.
ClsH(n, g, hg, tup) ==
  [k |-> "class", name |-> n, generics |-> g, hidden |-> hg, isTuple |-> tup]

\* A FuncType whose function generics carry the ids of their declarations.
FuncG(a, ix, ids, fg, p, args, ret) ==
  [k |-> "func", obj |-> 1, ast |-> a, index |-> ix, funcGenerics |-> fg, ids |-> ids,
   funcParent |-> p, name |-> "Function", generics |-> <<Cls("Tuple", args), ret>>,
   hidden |-> <<>>, isTuple |-> FALSE]

HiddenGenerics(c) == IF "hidden" \in DOMAIN c THEN c.hidden ELSE <<>>

RECURSIVE Generalize(_, _, _, _)

\* ClassType::generalize that leaves the hidden generics out of the copy.
ClassGeneralize_DropHidden(c, atLevel, lv, g) ==
  IF "hidden" \in DOMAIN c
  THEN [c EXCEPT !.generics = [i \in 1..Len(@) |-> Generalize(@[i], atLevel, lv, g)],
                 !.hidden = <<>>]
  ELSE [c EXCEPT !.generics = [i \in 1..Len(@) |-> Generalize(@[i], atLevel, lv, g)]]

\* ClassType::generalize: a copy with the generics and the hidden generics
\* generalized; name and isTuple are kept.
ClassGeneralize(c, atLevel, lv, g) ==
  IF "hidden" \in DOMAIN c
  THEN [c EXCEPT !.generics = [i \in 1..Len(@) |-> Generalize(@[i], atLevel, lv, g)],
                 !.hidden = [i \in 1..Len(@) |-> Generalize(@[i], atLevel, lv, g)]]
  ELSE [c EXCEPT !.generics = [i \in 1..Len(@) |-> Generalize(@[i], atLevel, lv, g)]]

\* FuncType::generalize: function generics, parent, then the ClassType part.
FuncGeneralize(f, atLevel, lv, g) ==
  [ClassGeneralize(f, atLevel, lv, g) EXCEPT
     !.funcGenerics = [i \in 1..Len(@) |-> Generalize(@[i], atLevel, lv, g)],
     !.funcParent = IF @ # None THEN Generalize(@, atLevel, lv, g) ELSE None]

\* Type::generalize(atLevel); lv[i] is the level of the unbound node i. An
\* unbound node of a level >= atLevel becomes a Generic of the same id.
Generalize(t, atLevel, lv, g) ==
  CASE t.k = "generic" -> t
    [] t.k = "link" ->
         IF IsBound(t.id, g) THEN Generalize(g[t.id], atLevel, lv, g)
         ELSE IF lv[t.id] >= atLevel THEN Generic(t.id) ELSE t
    [] t.k = "func" -> FuncGeneralize(t, atLevel, lv, g)
    [] t.k = "class" -> ClassGeneralize(t, atLevel, lv, g)
    [] OTHER -> t

\* The state of one instantiate call: *unboundCount and *cache.
IState(count, ch) == [count |-> count, cache |-> ch]
IRes(t, st) == [type |-> t, st |-> st]

RECURSIVE Instantiate(_, _, _)
RECURSIVE InstantiateAll(_, _, _, _, _)

\* LinkType::instantiate: a Generic becomes the cached type of its id, or a
\* fresh unbound node (id *unboundCount) that is put into the cache.
LinkInstantiate(t, st, g) ==
  IF t.k = "generic"
  THEN IF t.id \in DOMAIN st.cache THEN IRes(st.cache[t.id], st)
       ELSE IRes(Var(st.count),
                 IState(st.count + 1, (t.id :> Var(st.count)) @@ st.cache))
  ELSE IF t.id \in DOMAIN g /\ IsBound(t.id, g) THEN Instantiate(g[t.id], st, g)
  ELSE IRes(t, st)

\* `for (auto &t : g) t.type = t.type->instantiate(...)`, in order
InstantiateNext(ts, i, acc, r, g) == InstantiateAll(ts, i + 1, Append(acc, r.type), r.st, g)
InstantiateAll(ts, i, acc, st, g) ==
  IF i > Len(ts) THEN IRes(acc, st)
  ELSE InstantiateNext(ts, i, acc, Instantiate(ts[i], st, g), g)

\* ClassType::instantiate: generics, then hidden generics.
ClassInstantiateHidden(c, rg, rh) ==
  IF "hidden" \in DOMAIN c
  THEN IRes([c EXCEPT !.generics = rg.type, !.hidden = rh.type], rh.st)
  ELSE IRes([c EXCEPT !.generics = rg.type], rh.st)
ClassInstantiateGenerics(c, rg, g) ==
  ClassInstantiateHidden(c, rg, InstantiateAll(HiddenGenerics(c), 1, <<>>, rg.st, g))
ClassInstantiate(c, st, g) ==
  ClassInstantiateGenerics(c, InstantiateAll(c.generics, 1, <<>>, st, g), g)

RECURSIVE FuncGenericsInstantiate(_, _, _, _, _)

\* The step of the loop with the cache entry of the declaration's id written
\* whether or not there is one already.
FuncGenericsNext_Overwrite(f, i, acc, r, g) ==
  FuncGenericsInstantiate(f, i + 1, Append(acc, r.type),
    IState(r.st.count, (f.ids[i] :> r.type) @@ r.st.cache), g)

\* The loop of FuncType::instantiate over funcGenerics:
\* if (cache && cache->find(t.id) == cache->end()) (*cache)[t.id] = t.type
FuncGenericsNext(f, i, acc, r, g) ==
  FuncGenericsInstantiate(f, i + 1, Append(acc, r.type),
    IF f.ids[i] \in DOMAIN r.st.cache THEN r.st
    ELSE IState(r.st.count, (f.ids[i] :> r.type) @@ r.st.cache), g)
FuncGenericsInstantiate(f, i, acc, st, g) ==
  IF i > Len(f.funcGenerics) THEN IRes(acc, st)
  ELSE FuncGenericsNext(f, i, acc, Instantiate(f.funcGenerics[i], st, g), g)

\* FuncType::instantiate: function generics, parent, then the ClassType part.
FuncInstantiateClass(rf, rp, rc) ==
  IRes([rc.type EXCEPT !.funcGenerics = rf.type, !.funcParent = rp.type], rc.st)
FuncInstantiateParent(f, rf, rp, g) ==
  FuncInstantiateClass(rf, rp, ClassInstantiate(f, rp.st, g))
FuncInstantiateGenerics(f, rf, g) ==
  FuncInstantiateParent(f, rf,
    IF f.funcParent # None THEN Instantiate(f.funcParent, rf.st, g)
    ELSE IRes(None, rf.st), g)
FuncInstantiate(f, st, g) ==
  FuncInstantiateGenerics(f, FuncGenericsInstantiate(f, 1, <<>>, st, g), g)

\* Type::instantiate(atLevel, unboundCount, cache)
Instantiate(t, st, g) ==
  CASE t.k \in {"generic", "link"} -> LinkInstantiate(t, st, g)
    [] t.k = "func" -> FuncInstantiate(t, st, g)
    [] t.k = "class" -> ClassInstantiate(t, st, g)
    [] OTHER -> IRes(t, st)

\* The first id that instantiate gives to a fresh node, and a node made by an
\* earlier instantiate call with the same cache.
FreshBase == 10
Earlier == Var(9)

\* The types over the parameters ps: as declared, ps are the Generic nodes 5
\* and 6 (the ids T and U were declared with); once instantiated, ps are nodes
\* of the graph, and T of f is such a node or int.
TypesOver(ps, ts, u) ==
  {TInt} \cup {List(a) : a \in ps}
  \cup {ClsH("Foo", <<a>>, <<b>>, tup) : a \in ps, b \in ps, tup \in BOOLEAN}
  \cup {FuncG("f", ix, <<5>>, <<a>>, p, <<x>>, ret) :
          ix \in {0, 1}, a \in ts,
          p \in {None, FuncG("g", 0, <<6>>, <<u>>, None, <<u>>, TInt)}
                 \cup {List(b) : b \in ps},
          x \in ps \cup {List(b) : b \in ps},
          ret \in ps \cup {TInt}}
InstTypes ==
  TypesOver({Generic(5), Generic(6)}, {Generic(5)}, Generic(6))
    \cup TypesOver({Var(1), Var(2)}, {Var(1), TInt}, Var(2))

InitInst ==
  /\ tv \in {g \in InitBindings : g[0] = Unbound}
  /\ unions = InitUnions
  /\ cache = NoCache
  /\ op = "init"
  /\ res = [t |-> None]
  /\ pre = Graph

\* t->generalize(atLevel)->instantiate(atLevel, &count, &cache): the
\* generalized copy and what instantiating it gives, for the levels lv of the
\* nodes and a cache that is empty or has an entry already.
InstantiateOp ==
  /\ op = "init"
  /\ \E t \in InstTypes, atLevel \in {0, 1},
        lv \in [{1, 2} -> {0, 1}],
        ch \in {<<>>, (5 :> Earlier), (6 :> Earlier)} :
       \E gen \in {Generalize(t, atLevel, lv, tv)} :
         /\ op' = "instantiate"
         /\ res' = [t |-> t, atLevel |-> atLevel, lv |-> lv, cache |-> ch, gen |-> gen,
                    out |-> Instantiate(gen, IState(FreshBase, ch), tv)]
         /\ pre' = Graph
         /\ UNCHANGED <<tv, unions, cache>>

NextInst == InstantiateOp

SpecInst == InitInst /\ [][NextInst]_vars

-----------------------------------------------------------------------------
(* Properties of generalize and instantiate *)

\* The node or type at the end of the links of t.
RECURSIVE Target(_, _)
Target(t, g) ==
  IF t.k = "link" /\ t.id \in DOMAIN g /\ IsBound(t.id, g) THEN Target(g[t.id], g) ELSE t

IsVariable(t) == t.k \in {"generic", "link"}

\* a and b have the same shape: variables where the other has variables, and
\* the same class name, generics, hidden generics and tuple flag; for
\* functions the same declaration, index and presence of a parent.
RECURSIVE SameShape(_, _, _)
SameShapes(as, bs, g) ==
  /\ Len(as) = Len(bs)
  /\ \A i \in 1..Len(as) : SameShape(as[i], bs[i], g)
SameShape(a, b, g) ==
  LET x == Target(a, g)
      y == Target(b, g) IN
  IF IsVariable(x) \/ IsVariable(y) THEN IsVariable(x) /\ IsVariable(y)
  ELSE /\ x.k = y.k
       /\ x.k \in {"class", "func"} =>
            /\ x.name = y.name
            /\ SameShapes(x.generics, y.generics, g)
            /\ ("hidden" \in DOMAIN x) = ("hidden" \in DOMAIN y)
            /\ "hidden" \in DOMAIN x =>
                 /\ SameShapes(x.hidden, y.hidden, g)
                 /\ x.isTuple = y.isTuple
       /\ x.k = "func" =>
            /\ x.ast = y.ast /\ x.index = y.index
            /\ SameShapes(x.funcGenerics, y.funcGenerics, g)
            /\ (x.funcParent = None) = (y.funcParent = None)
            /\ x.funcParent # None => SameShape(x.funcParent, y.funcParent, g)
  
\* The pairs <<i, r>>: an occurrence of the Generic i in a has r in its place
\* in b, a type of the shape of a.
RECURSIVE Replaced(_, _)
ReplacedIn(as, bs) == UNION {Replaced(as[i], bs[i]) : i \in 1..Len(as)}
Replaced(a, b) ==
  CASE a.k = "generic" -> {<<a.id, b>>}
    [] a.k = "class" -> ReplacedIn(a.generics, b.generics)
                          \cup ReplacedIn(HiddenGenerics(a), HiddenGenerics(b))
    [] a.k = "func" -> ReplacedIn(a.generics, b.generics)
                         \cup ReplacedIn(a.funcGenerics, b.funcGenerics)
                         \cup (IF a.funcParent # None
                               THEN Replaced(a.funcParent, b.funcParent) ELSE {})
    [] OTHER -> {}

\* The ids of the nodes (unbound or Generic) that occur in t.
RECURSIVE NodesOf(_, _)
NodesOf(t, g) ==
  LET x == Target(t, g) IN
  CASE IsVariable(x) -> {x.id}
    [] x.k \in {"class", "func"} ->
         UNION ({NodesOf(x.generics[i], g) : i \in 1..Len(x.generics)}
                \cup {NodesOf(HiddenGenerics(x)[i], g) : i \in 1..Len(HiddenGenerics(x))}
                \cup (IF x.k = "func"
                      THEN {NodesOf(x.funcGenerics[i], g) : i \in 1..Len(x.funcGenerics)}
                             \cup (IF x.funcParent # None
                                   THEN {NodesOf(x.funcParent, g)} ELSE {})
                      ELSE {}))
    [] OTHER -> {}

\* C17: within one instantiate call every occurrence of a Generic is replaced
\* by the entry that the cache has for its id at the end; that entry is the
\* one the cache had at the start, if it had one, and a fresh unbound node
\* otherwise; no entry the cache had at the start is changed.
C17_AliasingPreserved ==
  op = "instantiate" =>
    /\ \A p \in Replaced(res.gen, res.out.type) :
         /\ p[1] \in DOMAIN res.out.st.cache
         /\ p[2] = res.out.st.cache[p[1]]
         /\ p[1] \notin DOMAIN res.cache =>
              /\ p[2].k = "link" /\ p[2].id >= FreshBase
              /\ p[2].id < res.out.st.count
    /\ \A i \in DOMAIN res.cache : res.out.st.cache[i] = res.cache[i]

\* T occurs in the function generics, in the parent, in the parameter and in
\* the return type of f, and all of them got the same fresh node.
C17_Witness ==
  /\ op = "instantiate"
  /\ res.gen.k = "func"
  /\ res.cache = <<>>
  /\ \E i \in {1, 2, 5, 6} :
       /\ res.gen.funcGenerics[1] = Generic(i)
       /\ res.gen.funcParent # None /\ res.gen.funcParent.k = "class"
       /\ res.gen.funcParent.generics[1] = Generic(i)
       /\ GetArgTypes(res.gen)[1] = Generic(i)
       /\ GetRetType(res.gen) = Generic(i)
       /\ res.out.type.funcGenerics[1] = Var(FreshBase)
       /\ res.out.type.funcParent.generics[1] = Var(FreshBase)
       /\ GetArgTypes(res.out.type)[1] = Var(FreshBase)
       /\ GetRetType(res.out.type) = Var(FreshBase)

\* The cache had an entry for the declaration of T, and it was kept.
C17_WitnessCached ==
  /\ op = "instantiate"
  /\ res.gen.k = "func"
  /\ res.cache = (5 :> Earlier)
  /\ res.gen.funcGenerics[1] = TInt
  /\ res.out.st.cache[5] = Earlier

\* C18: instantiate(generalize(t, L), L, {}) has the shape of t; the nodes
\* of t that were generalized (unbound, of a level >= L) do not occur in it,
\* fresh nodes stand in their place, and the graph is as it was.
C18_RoundTrip ==
  (op = "instantiate" /\ res.cache = <<>>) =>
    /\ SameShape(res.t, res.out.type, tv)
    /\ \A i \in NodesOf(res.out.type, tv) :
         \/ i >= FreshBase
         \/ i \in NodesOf(res.t, tv) /\ i \in DOMAIN res.lv /\ res.lv[i] < res.atLevel
    /\ <<tv, unions>> = <<pre.tv, pre.unions>>

\* A class with a hidden generic and the tuple flag, over an unbound node that
\* was generalized, came back with a fresh node.
C18_Witness ==
  /\ op = "instantiate" /\ res.cache = <<>>
  /\ res.t.k = "class" /\ res.t.name = "Foo"
  /\ res.t.isTuple
  /\ res.t.hidden = <<Var(2)>> /\ ~IsBound(2, tv)
  /\ res.gen.hidden = <<Generic(2)>>
  /\ res.out.type.hidden[1].k = "link" /\ res.out.type.hidden[1].id >= FreshBase
  /\ res.out.type.isTuple

-----------------------------------------------------------------------------
(* transform: visiting a node *)

\* An expression node (type None: no type yet) and a statement node.
ExprNode(i, d, t) == [kind |-> "expr", id |-> i, done |-> d, type |-> t]
StmtNode(i, d) == [kind |-> "stmt", id |-> i, done |-> d]

\* realize(t): nothing unless t->canRealize(); else the concrete type, in
\* which a function's return type that was still open is the type ret that
\* realizing the function has inferred.
Realize(t, ret, g) ==
  LET f == Follow(t, g) IN
  IF f.k = "unbound" \/ ~CanRealize(t, g) THEN None
  ELSE IF f.k = "func" /\ HasUnbounds(GetRetType(f), g)
  THEN [f EXCEPT !.generics[2] = ret]
  ELSE f

\* What transform gives: the node returned, the graph, ctx->changedNodes, how
\* often the handler of the node ran, and whether an error was raised.
TRes(n, g, ch, v, r) == [node |-> n, tv |-> g, changedNodes |-> ch, visits |-> v, raised |-> r]

\* The end of transform(Expr*): if (auto p = realize(expr->getType())) unify(...)
TransformRealize(e, ret, g, un, ch, v) ==
  TRes(e,
       IF Realize(e.type, ret, g) # None
       THEN Unify(e.type, Realize(e.type, ret, g), UState(g, un, <<>>)).st.tv
       ELSE g,
       ch, v, FALSE)

\* The block under `if (!expr->isDone())`, for the node e1 that the handler h
\* left: h.result is v.resultExpr (None: the node stays), h.done whether the
\* node that stays or its replacement is done afterwards.
TransformVisit(e, allowTypes, h, ret, g, un, ch) ==
  IF ~allowTypes /\ IsTypeExpr([type |-> h.type], g)
  THEN TRes(e, g, ch, 1, TRUE)
  ELSE TransformRealize(
         IF h.replace THEN ExprNode(e.id + 1, h.done, h.type)
         ELSE [e EXCEPT !.done = h.done, !.type = h.type],
         ret, g, un, IF h.done THEN ch + 1 ELSE ch, 1)

\* transform(Expr*, bool) without the test of isDone().
TransformExpr_Revisit(e, allowTypes, h, ret, g, un, ch) ==
  TransformVisit(e, allowTypes, h, ret, g, un, ch)

\* transform(Expr *expr, bool allowTypes)
TransformExpr(e, allowTypes, h, ret, g, un, ch) ==
  IF ~e.done THEN TransformVisit(e, allowTypes, h, ret, g, un, ch)
  ELSE TransformRealize(e, ret, g, un, ch, 0)

\* transform(Stmt*): h.result is v.resultStmt; with prepended statements
\* (all of them done or not: h.prepDone) the result is a new SuiteStmt.
TransformStmt(s, h, g, ch) ==
  IF s.done THEN TRes(s, g, ch, 0, FALSE)
  ELSE IF h.prepend
  THEN TRes(StmtNode(s.id + 2, h.done /\ h.prepDone), g,
            IF h.done /\ h.prepDone THEN ch + 1 ELSE ch, 1, FALSE)
  ELSE TRes(IF h.replace THEN StmtNode(s.id + 1, h.done) ELSE [s EXCEPT !.done = h.done],
            g, IF h.done THEN ch + 1 ELSE ch, 1, FALSE)

\* The types of the expressions; a node that is done has one of them too.
NodeTypes ==
  {TInt, Var(1), List(Var(1)), TypeOf(TInt)}
  \cup {Func(1, "f", 0, <<>>, None, <<TInt>>, ret) : ret \in {TInt, Var(1)}}

InitTransform ==
  /\ tv \in {g \in InitBindings : g[0] = Unbound /\ g[2] = Unbound}
  /\ unions = InitUnions
  /\ cache = NoCache
  /\ op = "init"
  /\ res = [node |-> None]
  /\ pre = Graph

\* transform(expr, allowTypes) with ctx->changedNodes = ch, for a node that has
\* a type; h is what the handler of the node does, ret what realizing infers.
TransformExprOp ==
  /\ op = "init"
  /\ \E d \in BOOLEAN, t \in NodeTypes, allowTypes \in BOOLEAN, ch \in {0, 1},
        ret \in {TInt, TStr},
        h \in [replace : BOOLEAN, done : BOOLEAN, type : {TInt, Var(1), TypeOf(TInt)}] :
       \E r \in {TransformExpr(ExprNode(1, d, t), allowTypes, h, ret, tv, unions, ch)} :
         /\ op' = "transformExpr"
         /\ res' = [node |-> ExprNode(1, d, t), changedNodes |-> ch, out |-> r]
         /\ tv' = r.tv
         /\ pre' = Graph
         /\ UNCHANGED <<unions, cache>>

\* transform(stmt)
TransformStmtOp ==
  /\ op = "init"
  /\ \E d \in BOOLEAN, ch \in {0, 1},
        h \in [replace : BOOLEAN, done : BOOLEAN, prepend : BOOLEAN, prepDone : BOOLEAN] :
       \E r \in {TransformStmt(StmtNode(1, d), h, tv, ch)} :
         /\ op' = "transformStmt"
         /\ res' = [node |-> StmtNode(1, d), changedNodes |-> ch, out |-> r]
         /\ tv' = r.tv
         /\ pre' = Graph
         /\ UNCHANGED <<unions, cache>>

NextTransform == TransformExprOp \/ TransformStmtOp

SpecTransform == InitTransform /\ [][NextTransform]_vars

\* transform ran on a node that was done.
RevisitedDone == op \in {"transformExpr", "transformStmt"} /\ res.node.done

\* C19 as stated: transform on a done node does not run the handler, returns
\* the node itself, leaves ctx->changedNodes alone and alters no type.
C19_DoneIsNoOp ==
  RevisitedDone =>
    /\ res.out.visits = 0
    /\ res.out.node = res.node
    /\ res.out.changedNodes = res.changedNodes
    /\ tv = pre.tv

\* C19: transform on a done node does not run the handler, returns the node
\* itself and leaves ctx->changedNodes alone. It alters no type either, unless
\* the node is an expression whose type can be realized while it still has an
\* unbound part (a function's return type): transform realizes the type of a
\* done expression too and unifies the type with the realization.
C19_DoneIsNoOpButRealize ==
  RevisitedDone =>
    /\ res.out.visits = 0
    /\ res.out.node = res.node
    /\ res.out.changedNodes = res.changedNodes
    /\ ~res.out.raised
    /\ (\/ res.node.kind = "stmt"
        \/ ~CanRealize(res.node.type, pre.tv)
        \/ ~HasUnbounds(res.node.type, pre.tv)) => tv = pre.tv

\* A done expression of a realized type went through transform unchanged.
C19_Witness ==
  /\ RevisitedDone
  /\ res.node.kind = "expr"
  /\ res.node.type = List(Var(1)) /\ CanRealize(res.node.type, pre.tv)
  /\ res.out.node = res.node
  /\ tv = pre.tv

\* The return type of a done expression's function type was bound.
C19_WitnessRealized ==
  /\ RevisitedDone
  /\ res.node.kind = "expr"
  /\ res.node.type.k = "func"
  /\ ~IsBound(1, pre.tv) /\ IsBound(1, tv)

-----------------------------------------------------------------------------
(* visit(CallExpr): arguments that are expanded, and the callee *)

\* The most arguments of a call.
MaxCallArgs == 2

\* An argument: plain (with a name or ""), *what or **what. cls is the class
\* of what's type: "unknown" (getClass() is null), "tuple" (a record Tuple of
\* one item), "record" (a named record with the field a) or "class" (no
\* record). Optional operands, which are unwrapped first, are left out.
Operands ==
  [kind : {"plain"}, name : {"", "a"}, cls : {"class"}]
  \cup [kind : {"star"}, name : {""}, cls : {"unknown", "tuple", "class"}]
  \cup [kind : {"kwstar"}, name : {""}, cls : {"unknown", "record", "tuple", "class"}]

\* The check of the names after the loop of transformCallArgs: "error" for
\* a name that is used twice, "true" otherwise.
RepeatedName(names) ==
  IF \E i \in 1..Len(names), j \in 1..Len(names) :
       i < j /\ names[i] # "" /\ names[i] = names[j]
  THEN "error" ELSE "true"

\* transformCallArgs that reports an operand of unknown type as an error.
RECURSIVE TransformCallArgs(_, _, _)
TransformCallArg_NoDefer(args, ai, names) ==
  CASE args[ai].kind = "star" ->
         IF args[ai].cls # "tuple" THEN "error"
         ELSE TransformCallArgs(args, ai + 1, Append(names, ""))
    [] args[ai].kind = "kwstar" ->
         IF args[ai].cls # "record" THEN "error"
         ELSE TransformCallArgs(args, ai + 1, Append(names, "a"))
    [] OTHER -> TransformCallArgs(args, ai + 1, Append(names, args[ai].name))

\* One round of the loop of transformCallArgs, at the argument ai; names are
\* the names of the arguments expanded so far.
TransformCallArg(args, ai, names) ==
  CASE args[ai].kind = "star" ->
         IF args[ai].cls = "unknown" THEN "false"
         ELSE IF args[ai].cls # "tuple" THEN "error"      \* CALL_BAD_UNPACK
         ELSE TransformCallArgs(args, ai + 1, Append(names, ""))
    [] args[ai].kind = "kwstar" ->
         IF args[ai].cls = "unknown" THEN "false"
         ELSE IF args[ai].cls # "record" THEN "error"     \* CALL_BAD_KWUNPACK
         ELSE TransformCallArgs(args, ai + 1, Append(names, "a"))
    [] OTHER -> TransformCallArgs(args, ai + 1, Append(names, args[ai].name))

\* transformCallArgs(args): "false" (to be processed later), "error" (an
\* error was raised) or "true".
TransformCallArgs(args, ai, names) ==
  IF ai > Len(args) THEN RepeatedName(names)
  ELSE TransformCallArg(args, ai, names)

\* What visit(CallExpr) leaves: an error raised, a replacement (resultExpr)
\* and the call done, or none of them.
VRes(r, x, d) == [raised |-> r, replaced |-> x, done |-> d]

\* visit(CallExpr): calleeKnown says whether expr->expr->type has a class
\* when getCalleeFn asks; rest is what the visit does with a known callee.
VisitCallExpr(calleeKnown, args, rest) ==
  CASE TransformCallArgs(args, 1, <<>>) = "false" -> VRes(FALSE, FALSE, FALSE)
    [] TransformCallArgs(args, 1, <<>>) = "error" -> VRes(TRUE, FALSE, FALSE)
    [] OTHER -> IF ~calleeKnown THEN VRes(FALSE, FALSE, FALSE) ELSE rest

InitVisit ==
  /\ tv = [i \in VarIds |-> Unbound]
  /\ unions = InitUnions
  /\ cache = NoCache
  /\ op = "init"
  /\ res = [args |-> <<>>]
  /\ pre = Graph

\* One pass over a call.
VisitCallOp ==
  /\ op = "init"
  /\ \E n \in 1..MaxCallArgs, calleeKnown \in BOOLEAN,
        rest \in {VRes(TRUE, FALSE, FALSE), VRes(FALSE, TRUE, FALSE),
                  VRes(FALSE, FALSE, TRUE), VRes(FALSE, FALSE, FALSE)} :
       \E args \in [1..n -> Operands] :
         /\ op' = "visitCall"
         /\ res' = [args |-> args, calleeKnown |-> calleeKnown,
                    out |-> VisitCallExpr(calleeKnown, args, rest)]
         /\ pre' = Graph
         /\ UNCHANGED <<tv, unions, cache>>

NextVisit == VisitCallOp

SpecVisit == InitVisit /\ [][NextVisit]_vars

\* The call is unresolved: the callee has no class yet, or a starred operand
\* has none.
Unresolved ==
  /\ op = "visitCall"
  /\ \/ ~res.calleeKnown
     \/ \E i \in 1..Len(res.args) :
          res.args[i].kind \in {"star", "kwstar"} /\ res.args[i].cls = "unknown"

\* C20 as stated: an unresolved call raises nothing, is not replaced and is
\* not done.
C20_UnresolvedIsDeferred ==
  Unresolved => ~res.out.raised /\ ~res.out.replaced /\ ~res.out.done

\* The first starred operand of unknown type, or Len + 1.
FirstUnknown ==
  IF \E i \in 1..Len(res.args) :
       res.args[i].kind \in {"star", "kwstar"} /\ res.args[i].cls = "unknown"
  THEN CHOOSE i \in 1..Len(res.args) :
         /\ res.args[i].kind \in {"star", "kwstar"} /\ res.args[i].cls = "unknown"
         /\ \A j \in 1..(i - 1) :
              ~(res.args[j].kind \in {"star", "kwstar"} /\ res.args[j].cls = "unknown")
  ELSE Len(res.args) + 1

\* The operand i cannot be unpacked: *what of a class that is no record, or
\* **what of one that is no named record.
BadUnpack(i) ==
  \/ res.args[i].kind = "star" /\ res.args[i].cls \in {"class"}
  \/ res.args[i].kind = "kwstar" /\ res.args[i].cls \in {"class", "tuple"}

\* C20: an unresolved call is never replaced and never done, and it raises
\* nothing on account of the missing type. An error of its arguments is
\* raised all the same: an operand ahead of the first unknown one that cannot
\* be unpacked, or, with every starred operand known, a name used twice.
C20_UnresolvedIsDeferredButArgs ==
  Unresolved =>
    /\ ~res.out.replaced /\ ~res.out.done
    /\ res.out.raised <=>
         \/ \E i \in 1..(FirstUnknown - 1) : BadUnpack(i)
         \/ /\ FirstUnknown = Len(res.args) + 1
            /\ Cardinality({i \in 1..Len(res.args) :
                              \/ res.args[i].kind = "kwstar"
                              \/ res.args[i].name = "a"}) > 1

\* The callee is unknown, the arguments are fine: the call is deferred.
C20_Witness ==
  /\ Unresolved
  /\ ~res.calleeKnown
  /\ Len(res.args) = 2
  /\ res.args[1].kind = "star" /\ res.args[1].cls = "tuple"
  /\ res.args[2].kind = "plain"
  /\ res.out = VRes(FALSE, FALSE, FALSE)

\* An operand of unknown type, with a known callee: the call is deferred.
C20_WitnessStar ==
  /\ Unresolved
  /\ res.calleeKnown
  /\ res.args[Len(res.args)].kind = "kwstar" /\ res.args[Len(res.args)].cls = "unknown"
  /\ res.out = VRes(FALSE, FALSE, FALSE)

\* The callee is unknown and a name is used twice: the error is raised.
C20_WitnessRepeated ==
  /\ Unresolved
  /\ ~res.calleeKnown
  /\ Len(res.args) = 2
  /\ res.args[1].kind = "plain" /\ res.args[1].name = "a"
  /\ res.args[2].kind = "plain" /\ res.args[2].name = "a"
  /\ res.out.raised

\* ---------------------------------------------------------------------------
\* Guarded imports: the statements visit(ImportStmt) generates, at run time
\* ---------------------------------------------------------------------------

\* The module files of the program.
Mods == {"m1", "m2"}

\* Most import statements at the top level of a module file, most in the main
\* file, and the deepest stack of running suites.
MaxBody == 2
MaxMain == 2
MaxDepth == 6

SeqsUpTo(S, n) == UNION {[1..k -> S] : k \in 0..n}

\* An import statement naming module file m, as visit(ImportStmt) leaves it:
\* `if _import_N_done.__invert__(): <suite>`.
ImportGuard(m) == [k |-> "if", m |-> m]

\* The suite call-then-assign that the comments of visit(ImportStmt) describe.
VisitImportStmt_CallFirst(m) ==
  <<[k |-> "call", m |-> m], [k |-> "assign", m |-> m]>>

\* visit(ImportStmt): the suite under the guard, N<SuiteStmt>(u, N<ExprStmt>(
\* N<CallExpr>(N<IdExpr>(importVar + ".0")))) with u the update
\* `_import_N_done = True`.
VisitImportStmt(m) ==
  <<[k |-> "assign", m |-> m], [k |-> "call", m |-> m]>>

\* transformNewImport: `_import_N_done = False` and `def _import_N(): <the
\* top-level statements of the file>`; imports is the list of the module files
\* its import statements name.
TransformNewImport(imports) ==
  [done |-> FALSE, body |-> [i \in DOMAIN imports |-> ImportGuard(imports[i])]]

Frame(code, fn) == [code |-> code, pc |-> 1, fn |-> fn]

\* res.stack is the stack of running suites (fn is the module whose _import_N
\* the suite is the body of, "" for the main file and for a guarded suite);
\* runs and rets count the calls of _import_N and its returns, seen counts the
\* executions of an import statement naming the module, and rec says that one
\* of them happened while _import_N of that very module was running.
InitImport ==
  /\ tv = [i \in VarIds |-> Unbound]
  /\ unions = InitUnions
  /\ cache = NoCache
  /\ op = "init"
  /\ pre = Graph
  /\ \E files \in [Mods -> SeqsUpTo(Mods, MaxBody)], main \in SeqsUpTo(Mods, MaxMain) :
       res = [body  |-> [m \in Mods |-> TransformNewImport(files[m]).body],
              done  |-> [m \in Mods |-> TransformNewImport(files[m]).done],
              runs  |-> [m \in Mods |-> 0],
              rets  |-> [m \in Mods |-> 0],
              seen  |-> [m \in Mods |-> 0],
              rec   |-> [m \in Mods |-> FALSE],
              stack |-> <<Frame(TransformNewImport(main).body, "")>>]

Top == res.stack[Len(res.stack)]

Current == Top.code[Top.pc]

Running(m) == \E i \in 1..Len(res.stack) : res.stack[i].fn = m

Advanced == [res.stack EXCEPT ![Len(res.stack)].pc = @ + 1]

ImportStep(name, r) ==
  /\ op' = name
  /\ res' = r
  /\ UNCHANGED <<tv, unions, pre, cache>>

\* `if _import_N_done.__invert__():` runs its suite when the flag is False.
IfStep ==
  /\ Len(res.stack) > 0 /\ Top.pc <= Len(Top.code) /\ Current.k = "if"
  /\ Len(res.stack) < MaxDepth
  /\ \E m \in {Current.m} :
       ImportStep("if",
         [res EXCEPT !.seen[m] = @ + 1,
                     !.rec[m] = @ \/ Running(m),
                     !.stack = IF res.done[m] THEN Advanced
                               ELSE Append(Advanced, Frame(VisitImportStmt(m), ""))])

\* `_import_N_done = True`
AssignStep ==
  /\ Len(res.stack) > 0 /\ Top.pc <= Len(Top.code) /\ Current.k = "assign"
  /\ ImportStep("assign", [res EXCEPT !.done[Current.m] = TRUE, !.stack = Advanced])

\* `_import_N()`
CallStep ==
  /\ Len(res.stack) > 0 /\ Top.pc <= Len(Top.code) /\ Current.k = "call"
  /\ Len(res.stack) < MaxDepth
  /\ \E m \in {Current.m} :
       ImportStep("call",
         [res EXCEPT !.runs[m] = @ + 1,
                     !.stack = Append(Advanced, Frame(res.body[m], m))])

\* The end of a suite: control returns to the suite below.
ReturnStep ==
  /\ Len(res.stack) > 0 /\ Top.pc > Len(Top.code)
  /\ \E m \in {Top.fn} :
       ImportStep("return",
         [res EXCEPT !.rets = IF m = "" THEN @ ELSE [@ EXCEPT ![m] = @ + 1],
                     !.stack = SubSeq(res.stack, 1, Len(res.stack) - 1)])

NextImport == IfStep \/ AssignStep \/ CallStep \/ ReturnStep

SpecImport == InitImport /\ [][NextImport]_vars

\* C21: over any run of guarded import statements naming the same module
\* file, recursive ones included, _import_N is called at most once.
C21_ImportOnce == \A m \in Mods : res.runs[m] <= 1

\* A module imported again while its own _import_N is running, and once more
\* after it returned, having run once.
C21_Witness ==
  \E m \in Mods :
    /\ res.runs[m] = 1 /\ res.rets[m] = 1
    /\ res.rec[m] /\ res.seen[m] >= 3

\* C27: the flag _import_N_done is True only once _import_N() has returned.
C27_FlagAfterReturn == \A m \in Mods : res.done[m] => res.rets[m] >= 1

\* The flag is True while _import_N is still running.
C27_FlagWhileRunning ==
  \E m \in Mods : res.done[m] /\ Running(m) /\ res.rets[m] = 0

\* ---------------------------------------------------------------------------
\* callReorderArguments
\* ---------------------------------------------------------------------------

\* The trailing `...` of a partial call.
EllipsisArg == [name |-> "", type |-> [k |-> "ellipsis"]]

\* def m(x: int, *args, b: int = 5, **kwargs)
CandStar ==
  Candidate("m.9",
            <<ValueParam("x", FALSE), ValueParam("*args", FALSE),
              ValueParam("b", TRUE), ValueParam("**kwargs", FALSE)>>,
            <<>>, <<TInt, Tuple1(TInt), TInt, Tuple1(TInt)>>, FALSE)

IsStarParam(p) == p.name \in {"*args", "**kwargs"}

\* ctx->reorderNamedArgs, with *args and **kwargs: slots[si] lists the
\* arguments bound to parameter si. Positional arguments fill the parameters
\* that are neither starred nor bound by the partial, the rest of them go to
\* *args; a name that no parameter has goes to **kwargs.
StarSlotOf(ps, args, known, j) ==
  LET taken == [i \in 1..Len(ps) |->
                  IF IsStarParam(ps[i]) \/ (known # <<>> /\ known[i] = 1)
                  THEN 1 ELSE 0]
      s == SlotOf(ps, args, taken, j) IN
  IF s # 0 /\ ~IsStarParam(ps[s]) THEN s
  ELSE IF args[j].name = "" THEN ParamNamed(ps, "*args")
  ELSE ParamNamed(ps, "**kwargs")

StarSlots(ps, args, known) ==
  [si \in 1..Len(ps) |-> SelectSeq([j \in 1..Len(args) |-> j],
                                   LAMBDA j : StarSlotOf(ps, args, known, j) = si)]

\* reorderNamedArgs calls onError instead of onDone: an argument with no
\* parameter, two arguments for one plain parameter, or (outside a partial
\* call) a value parameter with no argument, no default and no bound value.
StarReorderFails(ps, args, known, partial) ==
  \/ \E j \in 1..Len(args) : StarSlotOf(ps, args, known, j) = 0
  \/ \E si \in 1..Len(ps) :
       /\ ~IsStarParam(ps[si])
       /\ \/ Len(StarSlots(ps, args, known)[si]) > 1
          \/ /\ StarSlots(ps, args, known)[si] = <<>>
             /\ ps[si].value /\ ~ps[si].default /\ ~partial
             /\ ~(known # <<>> /\ known[si] = 1)

\* The placeholder the mutant leaves where the default belongs.
ReorderFn_NoDefault(c, given, known, partial, slots, depth, si) ==
  [mask |-> 0, typeArg |-> -1, raised |-> "",
   arg |-> [k |-> "ellipsis", i |-> 0, items |-> <<>>]]

\* The body of reorderFn's loop for one parameter without an argument that
\* the partial does not provide either, outside a partial call: the default.
ReorderFnDefault(c, given, known, partial, slots, depth, si) ==
  [mask |-> 1, typeArg |-> -1,
   raised |-> IF c.params[si].name \in depth THEN "CALL_RECURSIVE_DEFAULT" ELSE "",
   arg |-> [k |-> "default", i |-> si, items |-> <<>>]]

\* The body of reorderFn's loop for parameter si: the entry of newMask, the
\* entry pushed to typeArgs (-1: nothing pushed; a generic with no argument
\* pushes the null argument 0), the argument appended to args, and the error.
\* No argument carries the attribute StarArgument or KwStarArgument yet: they
\* are set here, and a call that has been here is an OrderedCall.
ReorderFn(c, given, known, partial, slots, depth, si) ==
  LET p == c.params[si]
      pi == Cardinality({h \in 1..(si - 1) :
                           /\ c.params[h].value /\ ~IsStarParam(c.params[h])
                           /\ slots[h] = <<>>
                           /\ known # <<>> /\ known[h] = 1})
      E(mask, typeArg, k, i, items) ==
        [mask |-> mask, typeArg |-> typeArg, raised |-> "",
         arg |-> [k |-> k, i |-> i, items |-> items]] IN
  IF ~p.value THEN
    E(IF slots[si] = <<>> THEN 0 ELSE 1,
      IF slots[si] = <<>> THEN 0 ELSE slots[si][1], "none", 0, <<>>)
  ELSE IF IsStarParam(p) THEN
    IF partial THEN E(0, -1, "ellipsis", 0, <<>>)
    ELSE E(1, -1, IF p.name = "*args" THEN "tuple" ELSE "kwtuple", 0,
           (IF known # <<>> THEN <<0>> ELSE <<>>) \o slots[si])
  ELSE IF slots[si] = <<>> THEN
    IF known # <<>> /\ known[si] = 1 THEN E(1, -1, "partial", pi, <<>>)
    ELSE IF partial THEN E(0, -1, "ellipsis", 0, <<>>)
    ELSE ReorderFnDefault(c, given, known, partial, slots, depth, si)
  ELSE E(1, -1, "arg", slots[si][1], <<>>)

\* "Unify function type generics with the provided generics", from generic
\* si on: the error raised, and the graph.
RECURSIVE UnifyTypeArgs(_, _, _, _, _, _)
UnifyTypeArgs(c, given, typeArgs, partial, si, st) ==
  IF si > Len(c.type.funcGenerics) THEN [raised |-> "", st |-> st]
  ELSE LET generic == c.type.funcGenerics[si]
           names == SelectSeq(c.params, LAMBDA p : ~p.value) IN
       IF typeArgs[si] # 0 THEN
         IF IsStaticType(generic, st.tv)
            /\ ~IsStaticType(given[typeArgs[si]].type, st.tv)
         THEN [raised |-> "EXPECTED_STATIC", st |-> st]
         ELSE UnifyTypeArgs(c, given, typeArgs, partial, si + 1,
                            Unify(given[typeArgs[si]].type, generic, st).st)
       ELSE IF /\ Follow(generic, st.tv).k = "link"
               /\ ~c.params[si].default /\ ~partial /\ names[si].ni
       THEN [raised |-> "generic not provided", st |-> st]
       ELSE UnifyTypeArgs(c, given, typeArgs, partial, si + 1, st)

\* callReorderArguments(calleeFn, expr, part): expr->args and part.known
\* afterwards, the error raised ("" if none), whether the callee is returned
\* in place of the call, and the graph. known is part.known on entry (<<>> if
\* the callee is no partial), ordered says that expr is an OrderedCall, depth
\* is ctx->defaultCallDepth.
CallReorderArguments(c, args, known, ordered, depth, st) ==
  LET n == Len(c.params)
      isPartial == args # <<>> /\ args[Len(args)] = EllipsisArg
      given == IF isPartial THEN SubSeq(args, 1, Len(args) - 1) ELSE args
      R(raised, as, mask, callee, s) ==
        [raised |-> raised, args |-> as, known |-> mask, partial |-> isPartial,
         callee |-> callee, st |-> s] IN
  IF ordered THEN R("", args, [si \in 1..n |-> 1], FALSE, st)
  ELSE IF StarReorderFails(c.params, given, known, isPartial)
  THEN R("reorderNamedArgs", args, known, FALSE, st)
  ELSE
    LET slots == StarSlots(c.params, given, known)
        es == [si \in 1..n |-> ReorderFn(c, given, known, isPartial, slots, depth, si)]
        typeArgs == [i \in 1..Len(SelectSeq(es, LAMBDA e : e.typeArg # -1)) |->
                       SelectSeq(es, LAMBDA e : e.typeArg # -1)[i].typeArg]
        newArgs == [i \in 1..Len(SelectSeq(es, LAMBDA e : e.arg.k # "none")) |->
                      SelectSeq(es, LAMBDA e : e.arg.k # "none")[i].arg]
        u == UnifyTypeArgs(c, given, typeArgs, isPartial, 1, st)
        cnt == Cardinality({i \in 1..Len(typeArgs) : typeArgs[i] # 0}) IN
    IF \E si \in 1..n : es[si].raised # ""
    THEN R("CALL_RECURSIVE_DEFAULT", args, known, FALSE, st)
    ELSE IF u.raised # "" THEN R(u.raised, args, known, FALSE, u.st)
    ELSE IF isPartial /\ cnt > 0 /\ cnt = Len(given)
    THEN R("", given, known, TRUE, u.st)
    ELSE R("", newArgs, [si \in 1..n |-> es[si].mask], FALSE, u.st)

ReorderFns == {CandDefault, CandGeneric, CandStatic, CandStar}
ReorderArgs ==
  SeqsUpTo({CallArg(a, TInt) : a \in ArgNames}
             \cup {CallArg("N", IntStatic(64)), CallArg("", TypeOf(TInt))},
           MaxCallArgs)

InitReorder ==
  /\ tv = [i \in VarIds |-> Unbound]
  /\ unions = InitUnions
  /\ cache = NoCache
  /\ op = "init"
  /\ res = <<>>
  /\ pre = Graph

\* visit(CallExpr) reaching callReorderArguments for a call it sees for the
\* first time.
CallReorderArgumentsOp ==
  /\ op = "init"
  /\ \E c \in ReorderFns, as \in ReorderArgs, ell \in BOOLEAN,
        depth \in {{}, {"b"}} :
       \E known \in {<<>>} \cup [1..Len(c.params) -> {0, 1}] :
         \E args \in {IF ell THEN Append(as, EllipsisArg) ELSE as} :
           \E r \in {CallReorderArguments(c, args, known, FALSE, depth,
                                          UState(tv, unions, <<>>))} :
             /\ op' = "callReorderArguments"
             /\ res' = [fn |-> c, in |-> args, part |-> known, depth |-> depth,
                        ordered |-> FALSE, out |-> r]
             /\ tv' = r.st.tv
             /\ unions' = r.st.unions
             /\ cache' = cache
             /\ pre' = Graph

\* The next pass over a call that was reordered: it is an OrderedCall now.
ReorderAgainOp ==
  /\ op = "callReorderArguments"
  /\ res.out.raised = "" /\ ~res.out.callee /\ ~res.out.partial
  /\ \E r \in {CallReorderArguments(res.fn, res.out.args, res.part, TRUE, {},
                                    UState(tv, unions, <<>>))} :
       /\ op' = "callReorderArgumentsAgain"
       /\ res' = [res EXCEPT !.ordered = TRUE, !.out = r]
       /\ UNCHANGED <<tv, unions, cache, pre>>

NextReorder == CallReorderArgumentsOp \/ ReorderAgainOp

SpecReorder == InitReorder /\ [][NextReorder]_vars

\* C22: after callReorderArguments of a non-partial call, the mask has 1 for
\* every value parameter, and a value parameter that received no argument and
\* is not supplied by a partial callee holds its declared default.
C22_DefaultsFill ==
  (op \in {"callReorderArguments", "callReorderArgumentsAgain"}
   /\ res.out.raised = "" /\ ~res.out.partial) =>
    \A si \in 1..Len(res.fn.params) :
      res.fn.params[si].value =>
        /\ res.out.known[si] = 1
        /\ (/\ ~res.ordered
            /\ ~IsStarParam(res.fn.params[si])
            /\ StarSlots(res.fn.params, res.in, res.part)[si] = <<>>
            /\ ~(res.part # <<>> /\ res.part[si] = 1))
           => \E i \in 1..Len(res.out.args) :
                /\ res.out.args[i].k = "default" /\ res.out.args[i].i = si
                /\ i = Cardinality({h \in 1..si : res.fn.params[h].value})

\* f(3) for def f(x: int, b: int = 5): b is filled from its default and the
\* mask is 11.
C22_Witness ==
  /\ op = "callReorderArguments"
  /\ res.fn = CandDefault /\ res.part = <<>>
  /\ res.in = <<CallArg("", TInt)>>
  /\ res.out.raised = ""
  /\ res.out.known = <<1, 1>>
  /\ res.out.args = <<[k |-> "arg", i |-> 1, items |-> <<>>],
                      [k |-> "default", i |-> 2, items |-> <<>>]>>

\* ---------------------------------------------------------------------------
\* Loops: visit(BreakStmt), visit(ContinueStmt), visit(WhileStmt),
\* transformStaticForLoop, and the statements they leave, at run time
\* ---------------------------------------------------------------------------

\* Statements. owner is the loop a `break` belongs to in the program as
\* written (the code never reads it). A condition or variable "" is none: the
\* condition of the program's own `if`/`while` is opaque, decided at run time.
NoVar == ""
Mark(id) == [k |-> "expr", id |-> id]
Break(owner, done) == [k |-> "break", owner |-> owner, done |-> done]
Continue(done) == [k |-> "continue", done |-> done]
Assign(var, value) == [k |-> "assign", var |-> var, value |-> value]
Suite(items) == [k |-> "suite", items |-> items]
If(cond, suite) == [k |-> "if", cond |-> cond, suite |-> suite]
While(label, cond, suite, elseSuite, gotoVar) ==
  [k |-> "while", label |-> label, cond |-> cond, suite |-> suite,
   elseSuite |-> elseSuite, gotoVar |-> gotoVar]
For(items, suite, flat) ==
  [k |-> "for", items |-> items, suite |-> suite, flat |-> flat]

\* getTemporaryVar: a name no other statement uses.
GetTemporaryVar(prefix, label) ==
  CASE prefix = "loop" -> "loop"
    [] label = "L1" -> "no_break.L1"
    [] label = "L2" -> "no_break.L2"

\* SuiteStmt::wrap
Wrap(s) == IF s.k = "suite" THEN s ELSE Suite(<<s>>)

Last(s) == s[Len(s)]

\* visit(BreakStmt), inside a loop. ctx.loops holds the breakVar of each
\* enclosing loop of the base, ctx.staticLoops the gotoVar.
VisitBreakStmt(stmt, ctx) ==
  IF Last(ctx.loops) # NoVar
  THEN Suite(<<Assign(Last(ctx.loops), FALSE), Break(stmt.owner, FALSE)>>)
  ELSE IF Last(ctx.staticLoops) # NoVar
  THEN Suite(<<Assign(Last(ctx.staticLoops), FALSE), Break(stmt.owner, TRUE)>>)
  ELSE Break(stmt.owner, TRUE)

\* A `continue` that stays a `continue` in a static loop.
VisitContinueStmt_Keep(stmt, ctx) == Continue(TRUE)

\* visit(ContinueStmt), inside a loop
VisitContinueStmt(stmt, ctx) ==
  IF Last(ctx.staticLoops) # NoVar THEN Break("", TRUE) ELSE Continue(TRUE)

\* transformStaticForLoop, before the closing transform(): the expansion of
\* `for i in <items>: <suite>`.
TransformStaticForLoop(stmt) ==
  LET loopVar == GetTemporaryVar("loop", "")
      wrap(k) ==
        IF ~stmt.flat
        THEN While("item", loopVar,
                   Suite(<<Assign("i", stmt.items[k]), stmt.suite, Break("", TRUE)>>),
                   Suite(<<>>), loopVar)
        ELSE Suite(<<Assign("i", stmt.items[k]), stmt.suite>>)
      block == [k \in 1..Len(stmt.items) |-> wrap(k)] IN
  IF ~stmt.flat
  THEN Suite(<<Assign(loopVar, TRUE),
               While("wrapper", loopVar,
                     Suite(block \o <<Assign(loopVar, FALSE)>>), Suite(<<>>), NoVar)>>)
  ELSE Suite(block)

RECURSIVE VisitStmt(_, _)
RECURSIVE VisitSuiteStmt(_, _, _)

\* visit(WhileStmt), with the prepended statement that transform() puts in
\* front of the result.
VisitWhileStmt(stmt, ctx) ==
  LET hasElse == stmt.elseSuite.items # <<>>
      breakVar == IF hasElse THEN GetTemporaryVar("no_break", stmt.label) ELSE NoVar
      loops == Append(ctx.loops, breakVar)
      suite == Wrap(VisitStmt(stmt.suite,
                              [loops |-> loops,
                               staticLoops |-> Append(ctx.staticLoops, stmt.gotoVar)]))
      loop == [stmt EXCEPT !.suite = suite, !.elseSuite = Suite(<<>>)] IN
  IF hasElse
  THEN Suite(<<Assign(breakVar, TRUE),
               VisitStmt(Suite(<<loop, If(breakVar, stmt.elseSuite)>>),
                         [loops |-> loops, staticLoops |-> ctx.staticLoops])>>)
  ELSE loop

\* visit(SuiteStmt): the items from i on, each transformed, a suite among the
\* results spliced in.
VisitSuiteStmt(items, i, ctx) ==
  IF i > Len(items) THEN <<>>
  ELSE LET s == VisitStmt(items[i], ctx) IN
       (IF s.k = "suite" THEN s.items ELSE <<s>>) \o VisitSuiteStmt(items, i + 1, ctx)

\* transform(Stmt*) for the statements of this section: a done statement is
\* returned as it is.
VisitStmt(stmt, ctx) ==
  CASE stmt.k = "break" ->
         IF stmt.done THEN stmt ELSE VisitBreakStmt(stmt, ctx)
    [] stmt.k = "continue" ->
         IF stmt.done THEN stmt ELSE VisitContinueStmt(stmt, ctx)
    [] stmt.k = "while" -> VisitWhileStmt(stmt, ctx)
    [] stmt.k = "for" -> VisitStmt(TransformStaticForLoop(stmt), ctx)
    [] stmt.k = "suite" -> Suite(VisitSuiteStmt(stmt.items, 1, ctx))
    [] stmt.k = "if" -> If(stmt.cond, Wrap(VisitStmt(stmt.suite, ctx)))
    [] OTHER -> stmt

\* ctx at the top of a function: no loop, and the empty entry of staticLoops.
TopCtx == [loops |-> <<>>, staticLoops |-> <<NoVar>>]

\* inferTypes: the passes over a statement at the top of a function, until a
\* pass changes nothing.
RECURSIVE InferTypes(_)
InferTypes(stmt) ==
  LET next == VisitStmt(stmt, TopCtx) IN
  IF next = stmt THEN stmt ELSE InferTypes(next)

\* --- Execution ---

\* The most iterations of one loop before the run is given up as divergent.
MaxIter == 3

\* The state of a run: the variables, the iteration variable i, the outcomes
\* of the opaque conditions still to come (False once they are used up), the
\* events so far, and the pending jump.
RunState(oracle) ==
  [env |-> [v \in {"loop", "no_break.L1", "no_break.L2"} |-> FALSE], i |-> 0,
   oracle |-> oracle, trace |-> <<>>, sig |-> ""]

Event(e, id, s) == [e |-> e, id |-> id, i |-> s.i]

\* The value of a condition and the state after evaluating it.
Cond(c, s) ==
  IF c # NoVar THEN [v |-> s.env[c], s |-> s]
  ELSE IF s.oracle = <<>> THEN [v |-> FALSE, s |-> s]
  ELSE [v |-> Head(s.oracle), s |-> [s EXCEPT !.oracle = Tail(@)]]

RECURSIVE Exec(_, _)
RECURSIVE ExecSuite(_, _, _)
RECURSIVE ExecWhile(_, _, _)
RECURSIVE ExecFor(_, _, _)

ExecSuite(items, j, s) ==
  IF j > Len(items) \/ s.sig # "" THEN s
  ELSE ExecSuite(items, j + 1, Exec(items[j], s))

\* A loop that still has its else clause runs it when the condition fails.
ExecWhile(w, n, s) ==
  LET c == Cond(w.cond, s) IN
  IF ~c.v THEN Exec(w.elseSuite, c.s)
  ELSE IF n > MaxIter THEN [c.s EXCEPT !.sig = "diverge"]
  ELSE LET b == Exec(w.suite,
                     [c.s EXCEPT !.trace = Append(@, Event("iter", w.label, c.s))]) IN
       IF b.sig = "break" THEN [b EXCEPT !.sig = ""]
       ELSE IF b.sig = "diverge" THEN b
       ELSE ExecWhile(w, n + 1, [b EXCEPT !.sig = ""])

\* The sequential loop over the items.
ExecFor(f, j, s) ==
  IF j > Len(f.items) THEN s
  ELSE LET b == Exec(f.suite, [s EXCEPT !.i = f.items[j],
                                        !.trace = Append(@, Event("iter", "item", s))]) IN
       IF b.sig = "break" THEN [b EXCEPT !.sig = ""]
       ELSE IF b.sig = "diverge" THEN b
       ELSE ExecFor(f, j + 1, [b EXCEPT !.sig = ""])

Exec(stmt, s) ==
  CASE stmt.k = "expr" -> [s EXCEPT !.trace = Append(@, Event("expr", stmt.id, s))]
    [] stmt.k = "break" ->
         [s EXCEPT !.sig = "break", !.trace = Append(@, Event("break", stmt.owner, s))]
    [] stmt.k = "continue" -> [s EXCEPT !.sig = "continue"]
    [] stmt.k = "assign" ->
         IF stmt.var = "i" THEN [s EXCEPT !.i = stmt.value]
         ELSE [s EXCEPT !.env[stmt.var] = stmt.value]
    [] stmt.k = "suite" -> ExecSuite(stmt.items, 1, s)
    [] stmt.k = "if" ->
         LET c == Cond(stmt.cond, s) IN IF c.v THEN Exec(stmt.suite, c.s) ELSE c.s
    [] stmt.k = "while" -> ExecWhile(stmt, 1, s)
    [] stmt.k = "for" -> ExecFor(stmt, 1, s)

\* --- The programs ---

MaxOracle == 3
MaxItems == 2

Plain(label, suite, else) == While(label, NoVar, Suite(suite), Suite(else), NoVar)

\* What the body of the inner loop L2 and its else clause may be. A `break`
\* in the else clause of L2 belongs to the loop around L2.
InnerBodies(outer) ==
  {<<Mark("b")>>, <<If(NoVar, Suite(<<Break("L2", FALSE)>>)), Mark("b")>>}
InnerElses(outer) ==
  {<<>>, <<Mark("E2")>>, <<Mark("E2"), Break(outer, FALSE)>>,
   <<If(NoVar, Suite(<<Break(outer, FALSE)>>))>>}

\* The statements of the body of the loop under test.
BodyStmts(outer) ==
  {Mark("a"), Break(outer, FALSE), Continue(FALSE),
   If(NoVar, Suite(<<Break(outer, FALSE)>>)),
   If(NoVar, Suite(<<Continue(FALSE)>>))}
  \cup {Plain("L2", b, e) : b \in InnerBodies(outer), e \in InnerElses(outer)}

\* `while ?: <up to two statements> else: E1`
WhilePrograms ==
  {Plain("L1", body, <<Mark("E1")>>) : body \in SeqsUpTo(BodyStmts("L1"), 2) \ {<<>>}}

\* `for i in <1..n>: <up to two statements>`; a loop is flat when no `break`
\* or `continue` belongs to it.
FlatBodies ==
  SeqsUpTo({Mark("a")} \cup {Plain("L2", x, <<>>) : x \in InnerBodies("F")}, 2) \ {<<>>}

ForPrograms ==
  {For([j \in 1..n |-> j], Suite(body), FALSE) :
     n \in 1..MaxItems, body \in SeqsUpTo(BodyStmts("F"), 2) \ {<<>>}}
  \cup {For([j \in 1..n |-> j], Suite(body), TRUE) :
          n \in 1..MaxItems, body \in FlatBodies}

InitLoop ==
  /\ tv = [i \in VarIds |-> Unbound]
  /\ unions = InitUnions
  /\ cache = NoCache
  /\ op = "init"
  /\ res = <<>>
  /\ pre = Graph

LoopStep(name, r) ==
  /\ op' = name
  /\ res' = r
  /\ UNCHANGED <<tv, unions, pre, cache>>

\* The typechecker visits a while-else statement at the top of a function.
VisitWhileOp ==
  /\ op = "init"
  /\ \E p \in WhilePrograms :
       LoopStep("visitWhile", [prog |-> p, out |-> InferTypes(p)])

\* The typechecker visits a static for statement at the top of a function.
VisitForOp ==
  /\ op = "init"
  /\ \E p \in ForPrograms :
       LoopStep("visitFor", [prog |-> p, out |-> InferTypes(p)])

\* The statement that was left runs; for a static loop, ref is the run of the
\* loop as written.
RunOp ==
  /\ op \in {"visitWhile", "visitFor"}
  /\ \E oracle \in SeqsUpTo(BOOLEAN, MaxOracle) :
       LoopStep(IF op = "visitWhile" THEN "runWhile" ELSE "runFor",
                [prog |-> res.prog, out |-> res.out, oracle |-> oracle,
                 run |-> Exec(res.out, RunState(oracle)),
                 ref |-> IF op = "visitFor" THEN Exec(res.prog, RunState(oracle))
                         ELSE RunState(oracle)])

NextLoop == VisitWhileOp \/ VisitForOp \/ RunOp

SpecLoop == InitLoop /\ [][NextLoop]_vars

Events(s, e) == SelectSeq(s.trace, LAMBDA x : x.e = e)

Happened(s, e, id) == \E j \in 1..Len(s.trace) : s.trace[j].e = e /\ s.trace[j].id = id

\* C23: in the rewrite of `while cond: body else: E`, E runs exactly when the
\* loop ended without a `break` that belongs to this loop having run.
C23_ElseIffNoBreak ==
  op = "runWhile" =>
    (Happened(res.run, "expr", "E1") <=> ~Happened(res.run, "break", "L1"))

\* The same for the loops with no `break` in the else clause of a nested loop.
C23_ElseIffNoBreakInBody ==
  (op = "runWhile"
   /\ \A j \in 1..Len(res.prog.suite.items) :
        res.prog.suite.items[j].k = "while" =>
          res.prog.suite.items[j].elseSuite.items \in {<<>>, <<Mark("E2")>>}) =>
    (Happened(res.run, "expr", "E1") <=> ~Happened(res.run, "break", "L1"))

\* A `break` of the nested loop ran, and E ran all the same.
C23_WitnessNested ==
  /\ op = "runWhile"
  /\ Happened(res.run, "break", "L2")
  /\ Happened(res.run, "expr", "E1")

\* A `break` of the loop ran, and E did not.
C23_WitnessBreak ==
  /\ op = "runWhile"
  /\ Happened(res.run, "break", "L1")
  /\ ~Happened(res.run, "expr", "E1")

\* What a run shows of the loop as written: the statements of the bodies,
\* the iterations and the `break`s of the program; not the wrapper, nor the
\* `break`s that the expansion adds.
Visible(s) ==
  SelectSeq(s.trace, LAMBDA x : /\ ~(x.e = "iter" /\ x.id = "wrapper")
                                /\ ~(x.e = "break" /\ x.id = ""))

\* C24: the non-flat expansion of a static for loop runs as the sequential
\* loop does: the bodies in order, each at most once, none after a `break`,
\* the rest of one body skipped by `continue`; and the block of the wrapper
\* `while loop:` runs exactly once.
C24_StaticForAsSequential ==
  (op = "runFor" /\ ~res.prog.flat) =>
    /\ res.run.sig = "" /\ res.ref.sig = ""
    /\ Visible(res.run) = Visible(res.ref)
    /\ res.run.oracle = res.ref.oracle
    /\ Len(SelectSeq(res.run.trace,
                     LAMBDA x : x.e = "iter" /\ x.id = "wrapper")) = 1
    /\ \A j \in 1..Len(res.prog.items) :
         Len(SelectSeq(res.run.trace,
                       LAMBDA x : x.e = "iter" /\ x.id = "item"
                                  /\ x.i = res.prog.items[j] - 1)) <= 1

\* A `break` in the first of two iterations: the second body does not run.
C24_Witness ==
  /\ op = "runFor" /\ ~res.prog.flat
  /\ Len(res.prog.items) = 2
  /\ \E j \in 1..Len(res.run.trace) :
       /\ res.run.trace[j] = [e |-> "break", id |-> "F", i |-> 1]
       /\ \E h \in 1..(j - 1) : res.run.trace[h] = [e |-> "expr", id |-> "a", i |-> 1]
  /\ \A j \in 1..Len(res.run.trace) : res.run.trace[j].i # 2

\* A `continue` in the first iteration skips the rest of its body, and the
\* second body runs.
C24_WitnessContinue ==
  /\ op = "runFor" /\ ~res.prog.flat
  /\ res.prog.suite.items = <<If(NoVar, Suite(<<Continue(FALSE)>>)), Mark("a")>>
  /\ Visible(res.run) = <<[e |-> "iter", id |-> "item", i |-> 0],
                          [e |-> "iter", id |-> "item", i |-> 1],
                          [e |-> "expr", id |-> "a", i |-> 2]>>

\* ---------------------------------------------------------------------------
\* The done flag of SuiteStmt, ExprStmt, StmtExpr, WhileStmt and ForStmt
\* ---------------------------------------------------------------------------

\* The most statements of a suite or a statement expression.
MaxStmts == 2

\* A child of the node that is visited: whether it is done before the visit
\* and whether its own handler marks it done when it is visited now. role
\* names the field of the parent that holds it.
Child(role, done, handler) == [role |-> role, done |-> done, handler |-> handler]
Children(role) == {Child(role, d, h) : d, h \in BOOLEAN}

\* transform(child): a done node is returned as it is.
TransformChild(c) == [c EXCEPT !.done = c.done \/ c.handler]

\* What transform(s) returns for an item of a suite: nullptr, a statement, or
\* a SuiteStmt with its items.
Items ==
  {[k |-> "null", items |-> <<>>]}
  \cup {[k |-> "stmt", items |-> <<c>>] : c \in Children("item")}
  \cup {[k |-> "suite", items |-> cs] : cs \in SeqsUpTo(Children("item"), 1)}

\* The result of a visit: the children the node holds afterwards and its flag.
Visited(kind, children, done) == [kind |-> kind, children |-> children, done |-> done]

AllDone(cs) == \A j \in 1..Len(cs) : cs[j].done

\* visit(SuiteStmt): the items before the one at which ctx->returnEarly is
\* found set (early = Len(items): never) are transformed and kept, a suite
\* among them spliced in.
RECURSIVE SuiteStmtItems(_, _, _)
SuiteStmtItems(items, early, j) ==
  IF j > Len(items) \/ j > early THEN <<>>
  ELSE [h \in 1..Len(items[j].items) |-> TransformChild(items[j].items[h])]
       \o SuiteStmtItems(items, early, j + 1)

SuiteStmtDone(items, early) ==
  Visited("SuiteStmt", SuiteStmtItems(items, early, 1),
          AllDone(SuiteStmtItems(items, early, 1)))

\* visit(ExprStmt)
ExprStmtDone(expr) ==
  Visited("ExprStmt", <<TransformChild(expr)>>, TransformChild(expr).done)

\* visit(StmtExpr)
StmtExprDone(stmts, expr) ==
  Visited("StmtExpr",
          [j \in 1..Len(stmts) |-> TransformChild(stmts[j])] \o <<TransformChild(expr)>>,
          AllDone([j \in 1..Len(stmts) |-> TransformChild(stmts[j])])
            /\ TransformChild(expr).done)

\* The else clause of a loop: "none" (nullptr), "empty" (a suite without a
\* first statement) or "stmts". A clause with statements moves into the
\* `if no_break:` behind the loop; an empty one stays where it is, unvisited.
ElseChild(else) ==
  IF else = "empty" THEN <<Child("elseSuite", FALSE, FALSE)>> ELSE <<>>

\* visit(WhileStmt): the statement is done when its condition and its suite
\* are.
WhileStmtDone(cond, suite, else) ==
  Visited("WhileStmt",
          <<TransformChild(cond), TransformChild(suite)>> \o ElseChild(else),
          TransformChild(cond).done /\ TransformChild(suite).done)

\* visit(ForStmt). known: the class of the iterator is known; static: what
\* transformStaticForLoop says ("delay", "loop": the statement is replaced,
\* "no": an ordinary loop).
ForStmtDone(decorator, iter, var, suite, else, known, static) ==
  IF ~known \/ static # "no"
  THEN Visited("ForStmt",
               <<TransformChild(decorator), TransformChild(iter), var, suite>>
                 \o ElseChild(else),
               FALSE)
  ELSE Visited("ForStmt",
               <<TransformChild(decorator), TransformChild(iter),
                 TransformChild(var), TransformChild(suite)>> \o ElseChild(else),
               TransformChild(iter).done /\ TransformChild(suite).done)

InitDone ==
  /\ tv = [i \in VarIds |-> Unbound]
  /\ unions = InitUnions
  /\ cache = NoCache
  /\ op = "init"
  /\ res = <<>>
  /\ pre = Graph

DoneStep(r) ==
  /\ op' = r.kind
  /\ res' = r
  /\ UNCHANGED <<tv, unions, pre, cache>>

SuiteStmtOp ==
  /\ op = "init"
  /\ \E items \in SeqsUpTo(Items, MaxStmts) :
       \E early \in 0..Len(items) : DoneStep(SuiteStmtDone(items, early))

ExprStmtOp ==
  /\ op = "init"
  /\ \E expr \in Children("expr") : DoneStep(ExprStmtDone(expr))

StmtExprOp ==
  /\ op = "init"
  /\ \E stmts \in SeqsUpTo(Children("stmt"), MaxStmts), expr \in Children("expr") :
       DoneStep(StmtExprDone(stmts, expr))

WhileStmtOp ==
  /\ op = "init"
  /\ \E cond \in Children("cond"), suite \in Children("suite"),
        else \in {"none", "empty", "stmts"} :
       DoneStep(WhileStmtDone(cond, suite, else))

ForStmtOp ==
  /\ op = "init"
  /\ \E decorator \in Children("decorator"), iter \in Children("iter"),
        var \in Children("var"), suite \in Children("suite"),
        else \in {"none", "empty", "stmts"}, known \in BOOLEAN,
        static \in {"no", "delay", "loop"} :
       DoneStep(ForStmtDone(decorator, iter, var, suite, else, known, static))

NextDone == SuiteStmtOp \/ ExprStmtOp \/ StmtExprOp \/ WhileStmtOp \/ ForStmtOp

SpecDone == InitDone /\ [][NextDone]_vars

\* C25: a SuiteStmt, ExprStmt, StmtExpr, WhileStmt or ForStmt that is marked
\* done holds only children that are done.
C25_DoneBottomUp == (op # "init" /\ res.done) => AllDone(res.children)

\* What the handlers test: the items, the expression, the condition or the
\* iterator, and the suite of a done node are done.
C25_DoneOfTestedChildren ==
  (op # "init" /\ res.done) =>
    \A j \in 1..Len(res.children) :
      res.children[j].role \in {"item", "expr", "stmt", "cond", "iter", "suite"}
        => res.children[j].done

\* A ForStmt is done, and its loop variable is not.
C25_WitnessVar ==
  /\ op = "ForStmt" /\ res.done
  /\ \E j \in 1..Len(res.children) :
       res.children[j].role = "var" /\ ~res.children[j].done

\* ---------------------------------------------------------------------------
\* TranslateVisitor::transformFunctionRealizations
\* ---------------------------------------------------------------------------

\* The functions, and the realized names each may get (numbered).
FnNames == {"f", "g"}
MaxRealizations == 2
\* The deepest nesting of FunctionStmt visits, one inside the body of another.
MaxNest == 2

Pair(name, real) == <<name, real>>

\* The keys of ctx->cache->functions[name].realizations, in the order of the
\* map.
RECURSIVE Ordered(_)
Ordered(S) ==
  IF S = {} THEN <<>>
  ELSE LET least == CHOOSE x \in S : \A y \in S : x <= y IN
       <<least>> \o Ordered(S \ {least})

\* A loop that leaves the pair in pendingRealizations.
ErasePending_Keep(pending, pair) == pending

\* ctx->cache->pendingRealizations.erase(make_pair(name, real.first))
ErasePending(pending, pair) == pending \ {pair}

\* res.realizations and res.pending are the cache; res.count is how often the
\* body of a realization was translated; res.stack holds the running calls of
\* transformFunctionRealizations: the name, the realizations the loop has yet
\* to look at, and the one whose body is being translated (0: none).
InitTranslate ==
  /\ tv = [i \in VarIds |-> Unbound]
  /\ unions = InitUnions
  /\ cache = NoCache
  /\ op = "init"
  /\ pre = Graph
  /\ res = [realizations |-> [n \in FnNames |-> {}],
            pending |-> {},
            count |-> [p \in FnNames \X (1..MaxRealizations) |-> 0],
            stack |-> <<>>]

TranslateStep(name, r) ==
  /\ op' = name
  /\ res' = r
  /\ UNCHANGED <<tv, unions, pre, cache>>

TopCall == res.stack[Len(res.stack)]

\* The typechecker realizes a function under a new realized name and queues
\* it (between two translations).
RealizeFunction ==
  /\ res.stack = <<>>
  /\ \E n \in FnNames, real \in 1..MaxRealizations :
       /\ real \notin res.realizations[n]
       /\ TranslateStep("realize",
            [res EXCEPT !.realizations[n] = @ \cup {real},
                        !.pending = @ \cup {Pair(n, real)}])

\* visit(FunctionStmt), at the top level or within the body of a function
\* that is being translated: transformFunctionRealizations begins.
VisitFunctionStmt ==
  /\ Len(res.stack) < MaxNest
  /\ IF res.stack = <<>> THEN TRUE ELSE TopCall.cur # 0
  /\ \E n \in FnNames :
       TranslateStep("visitFunctionStmt",
         [res EXCEPT !.stack = Append(@, [name |-> n,
                                          todo |-> Ordered(res.realizations[n]),
                                          cur |-> 0])])

\* One turn of the loop: a realization that is not pending is passed over;
\* a pending one is erased from pendingRealizations and the translation of
\* its body begins.
TransformFunctionRealizations ==
  /\ res.stack # <<>> /\ TopCall.cur = 0 /\ TopCall.todo # <<>>
  /\ \E real \in {Head(TopCall.todo)} :
       IF Pair(TopCall.name, real) \notin res.pending
       THEN TranslateStep("continue",
              [res EXCEPT !.stack[Len(res.stack)].todo = Tail(@)])
       ELSE TranslateStep("transformFunction",
              [res EXCEPT !.pending = ErasePending(@, Pair(TopCall.name, real)),
                          !.count[Pair(TopCall.name, real)] = @ + 1,
                          !.stack[Len(res.stack)].todo = Tail(@),
                          !.stack[Len(res.stack)].cur = real])

\* transformFunction returns.
TransformFunctionEnd ==
  /\ res.stack # <<>> /\ TopCall.cur # 0
  /\ TranslateStep("translated", [res EXCEPT !.stack[Len(res.stack)].cur = 0])

\* The loop is over.
TransformFunctionRealizationsEnd ==
  /\ res.stack # <<>> /\ TopCall.cur = 0 /\ TopCall.todo = <<>>
  /\ TranslateStep("return",
       [res EXCEPT !.stack = SubSeq(@, 1, Len(@) - 1)])

NextTranslate ==
  \/ RealizeFunction
  \/ VisitFunctionStmt
  \/ TransformFunctionRealizations
  \/ TransformFunctionEnd
  \/ TransformFunctionRealizationsEnd

SpecTranslate == InitTranslate /\ [][NextTranslate]_vars

\* C26: every pair (function name, realized name) is translated at most once,
\* and while its body is translated it is no longer in pendingRealizations.
C26_TranslatedOnce ==
  /\ \A p \in DOMAIN res.count : res.count[p] <= 1
  /\ \A j \in 1..Len(res.stack) :
       res.stack[j].cur # 0 =>
         Pair(res.stack[j].name, res.stack[j].cur) \notin res.pending

\* While the body of a realization is translated, a FunctionStmt of the same
\* name is visited again and its loop passes the realization over.
C26_Witness ==
  /\ Len(res.stack) = 2
  /\ res.stack[1].name = res.stack[2].name
  /\ res.stack[1].cur = 1
  /\ res.stack[2].todo = <<>> /\ res.stack[2].cur = 0
  /\ res.count[Pair(res.stack[1].name, 1)] = 1
  /\ op = "continue"

\* ---------------------------------------------------------------------------
\* Static tuple slices: sliceAdjustIndices and transformStaticTupleIndex
\* ---------------------------------------------------------------------------

\* int64_t, scaled down: IntBits bits, two's complement.
IntBits == 4
IntMin == -(2 ^ (IntBits - 1))
IntMax == 2 ^ (IntBits - 1) - 1
\* The longest tuple.
MaxTuple == 3

\* The value a signed operation leaves. Within the range it is the result;
\* beyond it the behaviour is undefined, and the build either wraps around
\* (ub = "wrap") or goes on with the exact result in a wider register
\* (ub = "wide").
Signed(x, ub) ==
  IF (x >= IntMin /\ x <= IntMax) \/ ub = "wide" THEN x
  ELSE ((x - IntMin) % (2 ^ IntBits)) + IntMin

\* The quotient of / on integers: rounded towards zero.
Quot(a, b) ==
  LET q == (IF a < 0 THEN -a ELSE a) \div (IF b < 0 THEN -b ELSE b) IN
  IF (a < 0) = (b < 0) THEN q ELSE -q

\* sliceAdjustIndices(length, &start, &stop, step): the error, *start and
\* *stop afterwards, and the value returned.
SliceAdjustIndices(length, start, stop, step, ub) ==
  LET start1 == IF start < 0
                THEN IF start + length < 0 THEN (IF step < 0 THEN -1 ELSE 0)
                     ELSE start + length
                ELSE IF start >= length
                THEN (IF step < 0 THEN length - 1 ELSE length)
                ELSE start
      stop1 == IF stop < 0
               THEN IF stop + length < 0 THEN (IF step < 0 THEN -1 ELSE 0)
                    ELSE stop + length
               ELSE IF stop >= length
               THEN (IF step < 0 THEN length - 1 ELSE length)
               ELSE stop IN
  IF step = 0
  THEN [raised |-> "SLICE_STEP_ZERO", start |-> start, stop |-> stop, ret |-> 0]
  ELSE [raised |-> "", start |-> start1, stop |-> stop1,
        ret |-> IF step < 0
                THEN IF stop1 < start1
                     THEN Signed(Quot(start1 - stop1 - 1, Signed(-step, ub)) + 1, ub)
                     ELSE 0
                ELSE IF start1 < stop1
                     THEN Quot(stop1 - start1 - 1, step) + 1
                     ELSE 0]

\* The loop `for (i = start; (step > 0) ? (i < stop) : (i > stop); i += step)`
\* of transformStaticTupleIndex: the error and the indices pushed to te.
RECURSIVE SliceItems(_, _, _, _, _, _)
SliceItems(i, stop, step, sz, te, ub) ==
  IF ~(IF step > 0 THEN i < stop ELSE i > stop) THEN [raised |-> "", te |-> te]
  ELSE IF i < 0 \/ i >= sz THEN [raised |-> "TUPLE_RANGE_BOUNDS", te |-> te]
  ELSE SliceItems(Signed(i + step, ub), stop, step, sz, Append(te, i), ub)

\* A bound of the slice: absent, an expression that is no static integer, or
\* a static integer.
NoBound == [k |-> "none", v |-> 0]
Dynamic == [k |-> "dynamic", v |-> 0]
Static(v) == [k |-> "static", v |-> v]

\* transformStaticTupleIndex(tuple, expr, index) for a tuple of sz fields and
\* an index that is a SliceExpr.
TransformStaticTupleIndex(sz, slice, ub) ==
  LET get(dflt, e) == IF e.k = "static" THEN e.v ELSE dflt
      step == get(1, slice.step)
      start == IF slice.step.k # "none" /\ slice.start.k = "none"
               THEN (IF step > 0 THEN 0 ELSE sz - 1)
               ELSE get(0, slice.start)
      stop == IF slice.step.k # "none" /\ slice.stop.k = "none"
              THEN (IF step > 0 THEN sz ELSE -(sz + 1))
              ELSE get(sz, slice.stop)
      a == SliceAdjustIndices(sz, start, stop, step, ub)
      l == SliceItems(a.start, a.stop, step, sz, <<>>, ub) IN
  IF Dynamic \in {slice.start, slice.stop, slice.step}
  THEN [handled |-> FALSE, raised |-> "", te |-> <<>>, ret |-> 0]
  ELSE IF a.raised # ""
  THEN [handled |-> TRUE, raised |-> a.raised, te |-> <<>>, ret |-> 0]
  ELSE [handled |-> TRUE, raised |-> l.raised, te |-> l.te, ret |-> a.ret]

\* The bounds near the ends of the tuple, and every step.
SliceBounds ==
  {NoBound, Dynamic} \cup {Static(v) : v \in (-(MaxTuple + 2))..(MaxTuple + 2)}
SliceSteps == {NoBound, Dynamic} \cup {Static(v) : v \in IntMin..IntMax}

InitSlice ==
  /\ tv = [i \in VarIds |-> Unbound]
  /\ unions = InitUnions
  /\ cache = NoCache
  /\ op = "init"
  /\ res = <<>>
  /\ pre = Graph

TransformStaticTupleIndexOp ==
  /\ op = "init"
  /\ \E sz \in 0..MaxTuple, start \in SliceBounds, stop \in SliceBounds,
        step \in SliceSteps, ub \in {"wrap", "wide"} :
       /\ op' = "transformStaticTupleIndex"
       /\ res' = [sz |-> sz, start |-> start, stop |-> stop, step |-> step,
                  out |-> TransformStaticTupleIndex(
                            sz, [start |-> start, stop |-> stop, step |-> step], ub)]
       /\ UNCHANGED <<tv, unions, pre, cache>>

NextSlice == TransformStaticTupleIndexOp

SpecSlice == InitSlice /\ [][NextSlice]_vars

\* C28: for a static slice of a tuple of sz fields, step zero raises
\* SLICE_STEP_ZERO; otherwise nothing is raised, every index taken lies in
\* [0, sz), and their number is the value sliceAdjustIndices returned.
C28_SliceInBounds ==
  (op = "transformStaticTupleIndex" /\ res.out.handled) =>
    IF res.step = Static(0) THEN res.out.raised = "SLICE_STEP_ZERO"
    ELSE /\ res.out.raised = ""
         /\ \A j \in 1..Len(res.out.te) : res.out.te[j] >= 0 /\ res.out.te[j] < res.sz
         /\ Len(res.out.te) = res.out.ret

\* The same for the steps whose sum with an index of the tuple, and whose
\* negation, are within the range of the integers.
C28_SliceInBoundsSmallStep ==
  (/\ op = "transformStaticTupleIndex" /\ res.out.handled
   /\ res.step.v > IntMin /\ res.step.v <= IntMax - MaxTuple) =>
    IF res.step = Static(0) THEN res.out.raised = "SLICE_STEP_ZERO"
    ELSE /\ res.out.raised = ""
         /\ \A j \in 1..Len(res.out.te) : res.out.te[j] >= 0 /\ res.out.te[j] < res.sz
         /\ Len(res.out.te) = res.out.ret

\* t[1:3:IntMax] on three fields raises TUPLE_RANGE_BOUNDS.
C28_WitnessOverflow ==
  /\ op = "transformStaticTupleIndex"
  /\ res.sz = 3 /\ res.start = Static(1) /\ res.stop = Static(3)
  /\ res.step = Static(IntMax)
  /\ res.out.raised = "TUPLE_RANGE_BOUNDS"

\* ---------------------------------------------------------------------------
\* Static division: divMod
\* ---------------------------------------------------------------------------

\* divMod(ctx, a, b) with ctx->cache->pythonCompat = python. The quotient
\* IntMin / -1 is beyond the range: the build either wraps it around
\* (ub = "wrap") or the division instruction traps (ub = "trap").
DivMod(python, a, b, ub) ==
  LET over == a = IntMin /\ b = -1
      d == Signed(Quot(a, b), "wrap")
      m == Signed(a - Signed(d * b, "wrap"), "wrap") IN
  IF b = 0 THEN [raised |-> "STATIC_DIV_ZERO", d |-> 0, m |-> 0]
  ELSE IF over /\ ub = "trap" THEN [raised |-> "SIGFPE", d |-> 0, m |-> 0]
  ELSE IF python
  THEN IF m # 0 /\ ((b < 0) # (m < 0))
       THEN [raised |-> "", d |-> Signed(d - 1, "wrap"), m |-> Signed(m + b, "wrap")]
       ELSE [raised |-> "", d |-> d, m |-> m]
  ELSE [raised |-> "", d |-> d, m |-> m]

InitDivMod ==
  /\ tv = [i \in VarIds |-> Unbound]
  /\ unions = InitUnions
  /\ cache = NoCache
  /\ op = "init"
  /\ res = <<>>
  /\ pre = Graph

DivModOp ==
  /\ op = "init"
  /\ \E python \in BOOLEAN, a \in IntMin..IntMax, b \in IntMin..IntMax,
        ub \in {"wrap", "trap"} :
       /\ op' = "divMod"
       /\ res' = [python |-> python, a |-> a, b |-> b, ub |-> ub,
                  out |-> DivMod(python, a, b, ub)]
       /\ UNCHANGED <<tv, unions, pre, cache>>

NextDivMod == DivModOp

SpecDivMod == InitDivMod /\ [][NextDivMod]_vars

Abs(x) == IF x < 0 THEN -x ELSE x

\* What divMod owes for a and b # 0: a = d * b + m and |m| < |b|, with m zero
\* or of the sign of b under pythonCompat, zero or of the sign of a otherwise.
DivModLaw(python, a, b, out) ==
  /\ out.raised = ""
  /\ a = out.d * b + out.m
  /\ Abs(out.m) < Abs(b)
  /\ out.m = 0 \/ ((out.m < 0) = (IF python THEN b < 0 ELSE a < 0))

\* C29: divMod(a, b) raises STATIC_DIV_ZERO when b is zero and otherwise
\* returns (d, m) with a = d * b + m, |m| < |b|, and m zero or of the sign of
\* b (Python mode) or of a (otherwise).
C29_DivMod ==
  op = "divMod" =>
    IF res.b = 0 THEN res.out.raised = "STATIC_DIV_ZERO"
    ELSE DivModLaw(res.python, res.a, res.b, res.out)

\* The same for every pair but (IntMin, -1).
C29_DivModInRange ==
  (op = "divMod" /\ ~(res.a = IntMin /\ res.b = -1)) =>
    IF res.b = 0 THEN res.out.raised = "STATIC_DIV_ZERO"
    ELSE DivModLaw(res.python, res.a, res.b, res.out)

\* IntMin divided by -1.
C29_WitnessOverflow ==
  /\ op = "divMod" /\ res.a = IntMin /\ res.b = -1
  /\ \/ res.out.raised = "SIGFPE"
     \/ res.out.d = IntMin

\* A negative dividend with a positive divisor: the two modes differ.
C29_WitnessFloor ==
  /\ op = "divMod" /\ res.python /\ res.a = -7 /\ res.b = 2
  /\ res.out.d = -4 /\ res.out.m = 1

\* ---------------------------------------------------------------------------
\* CallExpr construction: CallExpr::validate
\* ---------------------------------------------------------------------------

\* The longest argument list.
MaxValidateArgs == 3

\* The values of an argument that validate tells apart: a StarExpr, a
\* KeywordStarExpr, an EllipsisExpr, anything else.
ValueKinds == {"plain", "star", "kwstar", "ellipsis"}
\* CallExpr::Arg: a name (empty when the argument is positional) and a value.
ValidateArgs == [name : {"", "n"}, value : ValueKinds]

\* One turn of the loop of CallExpr::validate on the argument a: the error
\* raised, if any.
CheckArg_NoEllipsis(a, namesStarted, foundEllipsis) ==
  IF a.name = "" /\ namesStarted /\ ~(a.value = "kwstar" \/ a.value = "ellipsis")
  THEN "CALL_NAME_ORDER"
  ELSE IF a.name # "" /\ (a.value = "star" \/ a.value = "kwstar")
  THEN "CALL_NAME_STAR"
  ELSE ""

CheckArg(a, namesStarted, foundEllipsis) ==
  IF a.name = "" /\ namesStarted /\ ~(a.value = "kwstar" \/ a.value = "ellipsis")
  THEN "CALL_NAME_ORDER"
  ELSE IF a.name # "" /\ (a.value = "star" \/ a.value = "kwstar")
  THEN "CALL_NAME_STAR"
  ELSE IF a.value = "ellipsis" /\ foundEllipsis
  THEN "CALL_ELLIPSIS"
  ELSE ""

\* CallExpr::validate(): the first error raised over args, "" when none.
RECURSIVE ValidateFrom(_, _, _, _)
ValidateFrom(args, i, namesStarted, foundEllipsis) ==
  IF i > Len(args) THEN ""
  ELSE \* E throws: the loop ends at the first error
       IF CheckArg(args[i], namesStarted, foundEllipsis) # ""
       THEN CheckArg(args[i], namesStarted, foundEllipsis)
       ELSE ValidateFrom(args, i + 1, namesStarted \/ args[i].name # "",
                         foundEllipsis \/ args[i].value = "ellipsis")

Validate(args) == ValidateFrom(args, 1, FALSE, FALSE)

\* CallExpr(expr, std::vector<CallExpr::Arg> args): the arguments are taken
\* as they are and validated.
CallExprArgs(args) ==
  [given |-> args, args |-> args, raised |-> Validate(args),
   built |-> Validate(args) = ""]

\* CallExpr(expr, std::vector<ExprPtr> args): the null values are dropped,
\* the others become positional arguments, and the list is validated.
RECURSIVE PushValues(_)
PushValues(values) ==
  IF values = <<>> THEN <<>>
  ELSE (IF Head(values) = "null" THEN <<>>
        ELSE <<[name |-> "", value |-> Head(values)]>>) \o PushValues(Tail(values))

CallExprExprs(values) ==
  [given |-> PushValues(values), args |-> PushValues(values),
   raised |-> Validate(PushValues(values)),
   built |-> Validate(PushValues(values)) = ""]

\* CallExpr(const CallExpr &expr, bool clean): the arguments are cloned; no
\* validation.
CallExprCopy(call) ==
  [given |-> call.args, args |-> call.args, raised |-> "", built |-> TRUE]

InitValidate ==
  /\ tv = [i \in VarIds |-> Unbound]
  /\ unions = InitUnions
  /\ cache = NoCache
  /\ op = "init"
  /\ res = <<>>
  /\ pre = Graph

CallExprArgsOp ==
  /\ op = "init"
  /\ \E args \in SeqsUpTo(ValidateArgs, MaxValidateArgs) :
       /\ op' = "CallExpr(args)"
       /\ res' = CallExprArgs(args)
       /\ UNCHANGED <<tv, unions, pre, cache>>

CallExprExprsOp ==
  /\ op = "init"
  /\ \E values \in SeqsUpTo(ValueKinds \cup {"null"}, MaxValidateArgs) :
       /\ op' = "CallExpr(exprs)"
       /\ res' = CallExprExprs(values)
       /\ UNCHANGED <<tv, unions, pre, cache>>

CallExprCopyOp ==
  /\ op \in {"CallExpr(args)", "CallExpr(exprs)"}
  /\ res.built
  /\ op' = "CallExpr(copy)"
  /\ res' = CallExprCopy(res)
  /\ UNCHANGED <<tv, unions, pre, cache>>

NextValidate == CallExprArgsOp \/ CallExprExprsOp \/ CallExprCopyOp

SpecValidate == InitValidate /\ [][NextValidate]_vars

\* What is wrong with argument i of args, by the rules of the call syntax:
\* a positional argument after a named one that is neither a **kwargs
\* unpacking nor an ellipsis; a named *args or **kwargs; an ellipsis after
\* another one.
Defect(args, i) ==
  IF /\ args[i].name = ""
     /\ \E j \in 1..(i - 1) : args[j].name # ""
     /\ args[i].value \notin {"kwstar", "ellipsis"}
  THEN "CALL_NAME_ORDER"
  ELSE IF args[i].name # "" /\ args[i].value \in {"star", "kwstar"}
  THEN "CALL_NAME_STAR"
  ELSE IF args[i].value = "ellipsis" /\ \E j \in 1..(i - 1) : args[j].value = "ellipsis"
  THEN "CALL_ELLIPSIS"
  ELSE ""

Ellipses(args) == Cardinality({i \in 1..Len(args) : args[i].value = "ellipsis"})

\* C30: constructing a call from an argument list raises the error of its
\* first malformed argument (CALL_NAME_ORDER, CALL_NAME_STAR, CALL_ELLIPSIS),
\* builds the call exactly when no argument is malformed, and every call
\* built, or copied from one, holds at most one ellipsis.
C30_ValidateRejects ==
  op \in {"CallExpr(args)", "CallExpr(exprs)", "CallExpr(copy)"} =>
    LET bad == {i \in 1..Len(res.given) : Defect(res.given, i) # ""} IN
    /\ IF bad = {} THEN res.raised = ""
       ELSE \E i \in bad : /\ \A j \in bad : i <= j
                           /\ res.raised = Defect(res.given, i)
    /\ res.built = (res.raised = "")
    /\ res.built => Ellipses(res.args) <= 1

\* f(n=x, **kw, ...) is built: the two exceptions to the order rule.
C30_Witness ==
  /\ op = "CallExpr(args)" /\ res.built
  /\ res.args = <<[name |-> "n", value |-> "plain"], [name |-> "", value |-> "kwstar"],
                  [name |-> "", value |-> "ellipsis"]>>

\* f(..., x, ...) is rejected.
C30_WitnessEllipsis ==
  /\ op = "CallExpr(exprs)" /\ ~res.built /\ res.raised = "CALL_ELLIPSIS"
  /\ Len(res.given) = 3

====
